---- MODULE Spec2Model ----
(***************************************************************************)
(* Model of rusted-player.                                                 *)
(*                                                                         *)
(* Playback engine (src/src/services/player_service.rs): a caller submits  *)
(* PlayerCommand values over an mpsc channel; one worker thread owns the   *)
(* output device and the optional rodio Sink, handles the commands one by  *)
(* one and reports volume changes on a second channel.                     *)
(*                                                                         *)
(* f32 volumes are modelled exactly: a finite value is the integer number  *)
(* of 2^-27 units it holds (every value the engine can compute from the    *)
(* modelled inputs is a multiple of 2^-27), NaN is a separate value, and   *)
(* addition rounds to a 24 bit significand, ties to even.                  *)
(*                                                                         *)
(* A sink is modelled by what the worker does to it: the sources appended  *)
(* and not yet skipped, the paused flag and the volume.                    *)
(*                                                                         *)
(* Library index (src/src/services/metadata_service.rs): PlaylistService   *)
(* holds the scanned tracks and two maps from a key to track offsets.  A   *)
(* scan clears them and then takes the entries WalkDir yields one by one.  *)
(* Strings the code takes apart (genre tags, file extensions) are          *)
(* sequences of one-character strings; offsets are 0-based as in the code. *)
(***************************************************************************)
EXTENDS Integers, Sequences, FiniteSets

VARIABLES
    worker,          \* "Starting" | "Running" | "Terminated": the worker thread
    pc,              \* "recv": at rx.recv(); "load": in play_tracks, before its loop
    device,          \* the OutputStream: "unacquired" | "held" | "failed" | "released"
    cmd_queue,       \* the command channel: sequence of [id, cmd]
    status_queue,    \* the status channel: sequence of volumes
    sink,            \* the worker's `sink: Option<Sink>`
    current_volume,  \* the worker's `current_volume: f32`
    load,            \* locals of play_tracks while pc = "load", and the number
                     \* of commands that were waiting when it started
    submitted,       \* number of calls of send so far
    send_result,     \* what the last call of send returned
    handled,         \* ids of the commands taken from the channel, in order
    last,            \* the last command taken, with the engine state before it
    status_sends,    \* number of calls of status_tx.send so far
    ui_volume,       \* the volume the caller last read from the status channel
    status_rx,       \* TRUE while the Receiver of the status channel exists
    sink_created,    \* what Sink::try_new returned in the play function last
                     \* run: "ok" | "failed", or "none" if it was not reached
    sender,          \* TRUE while the PlayerService, and its Sender, exists
    lib_tracks,      \* PlaylistService.tracks: sequence of TrackMetadata
    genres,          \* PlaylistService.genres: normalized genre -> offsets
    artists,         \* PlaylistService.artists: artist -> offsets
    scanning,        \* TRUE while scan_directory is in its loop
    scan_result,     \* what the last scan_directory returned: "None" | "Ok" | "Err"
    visited,         \* the items WalkDir yielded to the current or last scan
    before,          \* tracks, genres and artists when that scan was called
    disk_dirs,       \* the directories that exist, as resolved paths
    disk_files,      \* the files that exist: resolved path -> content
    store_call,      \* the last call into playlist_storage_service: its
                     \* arguments, its result and the file-system calls it made
    main,            \* the process: where main is, what it was given, what
                     \* it found on the disk and what it started
    launches,        \* number of times the program was started
    app              \* the UI: the fields of App, None before App::new

lib_vars == <<lib_tracks, genres, artists, scanning, scan_result, visited, before>>

\* the application around the services: the disk and what ran on it
app_vars == <<disk_dirs, disk_files, store_call, main, launches, app>>

vars == <<worker, pc, device, cmd_queue, status_queue, sink, current_volume,
          load, submitted, send_result, handled, last, status_sends, ui_volume,
          status_rx, sink_created, sender, lib_vars, app_vars>>

----------------------------------------------------------------------------
(* Bounds *)

MaxCmds == 3

\* key events one run of the UI handles
MaxKeys == 5

\* key events of a run that drives the engine
MaxPlayKeys == 3

\* key events of a run that only changes the volume
MaxVolumeKeys == 11

MaxModeKeys == 4

\* number of items one walk of the music directory yields at most
MaxEntries == 3

\* number of files of the shelf a walk can yield
MaxShelf == 8

\* artists.truncate(5)
TopLimit == 5

\* number of times the program is started
MaxLaunches == 2

----------------------------------------------------------------------------
(* f32 arithmetic on the values the engine uses *)

\* 1.0f32 in units of 2^-27
One == 134217728

\* 0.1f32 = 13421773 * 2^-27
Tenth == 13421773

NaN == [nan |-> TRUE, n |-> 0]

F32(n) == [nan |-> FALSE, n |-> n]

Abs(n) == IF n < 0 THEN -n ELSE n

\* the k with 2^k <= m < 2^(k+1), for 0 < m < 2^30
Exponent(m) == CHOOSE k \in 0..29 : 2^k <= m /\ m < 2^(k+1)

\* round the exact value n * 2^-27 to the nearest f32, ties to even
RoundF32(n) ==
    IF Abs(n) < 16777216 THEN n
    ELSE LET m == Abs(n)
             u == 2^(Exponent(m) - 23)
             q == m \div u
             r == m % u
             up == (2 * r > u) \/ (2 * r = u /\ q % 2 = 1)
             res == (IF up THEN q + 1 ELSE q) * u
         IN IF n < 0 THEN -res ELSE res

F32Add(x, y) == IF x.nan \/ y.nan THEN NaN ELSE F32(RoundF32(x.n + y.n))

F32Sub(x, y) == IF x.nan \/ y.nan THEN NaN ELSE F32(RoundF32(x.n - y.n))

\* comparisons with a NaN operand are false
F32Lt(x, y) == ~x.nan /\ ~y.nan /\ x.n < y.n

\* f32::clamp: NaN is returned unchanged
F32Clamp(x, lo, hi) ==
    IF F32Lt(x, lo) THEN lo ELSE IF F32Lt(hi, x) THEN hi ELSE x

\* f32::min and f32::max: a NaN operand is ignored
F32Min(x, y) == IF x.nan THEN y ELSE IF y.nan THEN x ELSE IF x.n < y.n THEN x ELSE y

F32Max(x, y) == IF x.nan THEN y ELSE IF y.nan THEN x ELSE IF x.n > y.n THEN x ELSE y

MinVolume == F32(0)

MaxVolume == F32(2 * One)

InitialVolume == F32(One)

VolumeStep == F32(Tenth)

----------------------------------------------------------------------------
(* Files and commands the caller can submit *)

Paths == {"a.mp3", "b.flac", "x.mp3", "gone.ogg"}

\* File::open(path) succeeds
FileOpens(p) == p # "gone.ogg"

\* Decoder::new(BufReader::new(file)) succeeds
DecodesDefault(p) == p = "a.mp3"

\* Decoder::new(BufReader::with_capacity(4096, file2)) succeeds
DecodesSmallBuf(p) == p \in {"a.mp3", "b.flac"}

\* the track lists submitted with PlayAlbum and with PlayShuffle
AlbumLists == { <<>>, <<"a.mp3", "x.mp3", "b.flac">> }

ShuffleLists == { <<"a.mp3", "x.mp3", "b.flac">>, <<"x.mp3", "gone.ogg">> }

\* 3.0, -1.0, 0.5 and NaN
VolumeArgs == { F32(3 * One), F32(-One), F32(One \div 2), NaN }

Cmd(t) == [type |-> t]

Commands ==
    [type : {"PlaySong"}, path : Paths]
    \cup [type : {"PlayAlbum"}, tracks : AlbumLists]
    \cup [type : {"PlayShuffle"}, tracks : ShuffleLists]
    \cup [type : {"SetVolume"}, volume : VolumeArgs]
    \cup { Cmd("TogglePause"), Cmd("VolumeUp"), Cmd("VolumeDown"),
           Cmd("Stop"), Cmd("SkipNext"), Cmd("Quit") }

----------------------------------------------------------------------------
(* Sinks *)

NoSink == [live |-> FALSE]

\* (mutant) the new sink keeps rodio's default volume
NewSinkDefaultVolume(volume) ==
    [live |-> TRUE, queue |-> <<>>, paused |-> FALSE, volume |-> F32(One)]

\* (mutant) the new sink takes over the pause of the sink it replaces
NewSinkKeepsPause(volume) ==
    [live |-> TRUE, queue |-> <<>>, paused |-> sink.live /\ sink.paused,
     volume |-> volume]

\* Sink::try_new followed by set_volume(volume): empty queue, playing
NewSink(volume) == [live |-> TRUE, queue |-> <<>>, paused |-> FALSE, volume |-> volume]

SinkAppend(s, p) == [s EXCEPT !.queue = Append(@, p)]

NoLoad == [active |-> FALSE]

\* nothing taken from the channel yet
NoLast == [cmd |-> Cmd("None")]

\* the record kept of a command when it is taken from the channel: the engine
\* state it found, whether the status Receiver existed, and the type of the
\* command handled before it with the sink that one found
Taken(entry) ==
    [id |-> entry.id, cmd |-> entry.cmd, sink |-> sink, volume |-> current_volume,
     status_sends |-> status_sends, status_rx |-> status_rx,
     prev |-> [type |-> last.cmd.type,
               sink |-> IF last = NoLast THEN NoSink ELSE last.sink]]

\* (mutant) each position drawn independently from the list
ShufflesWithRepetition(s) ==
    { t \in [1..Len(s) -> Paths] :
        \A i \in 1..Len(s) : \E j \in 1..Len(s) : t[i] = s[j] }

\* the orders slice::shuffle can leave the tracks in
Shuffles(s) ==
    { t \in [1..Len(s) -> Paths] :
        \E f \in [1..Len(s) -> 1..Len(s)] :
            /\ \A i, j \in 1..Len(s) : i # j => f[i] # f[j]
            /\ \A i \in 1..Len(s) : t[i] = s[f[i]] }

----------------------------------------------------------------------------
(* Library index: strings, files and maps *)

\* Option<T>
None == [some |-> FALSE]

Some(x) == [some |-> TRUE, v |-> x]

Digits == <<"0", "1", "2", "3", "4", "5", "6", "7", "8", "9">>

Upper == <<"A", "B", "C", "D", "E", "F", "G", "H", "I", "J", "K", "L", "M",
           "N", "O", "P", "Q", "R", "S", "T", "U", "V", "W", "X", "Y", "Z">>

Lower == <<"a", "b", "c", "d", "e", "f", "g", "h", "i", "j", "k", "l", "m",
           "n", "o", "p", "q", "r", "s", "t", "u", "v", "w", "x", "y", "z">>

\* the characters of the modelled strings, in the order of their code points
Ascii ==
    <<" ", "!", "&", "-", ".">> \o Digits \o Upper \o <<"[", "]">> \o Lower

Elems(s) == { s[i] : i \in DOMAIN s }

IndexOf(s, c) == CHOOSE i \in DOMAIN s : s[i] = c

Alphanumeric == Elems(Digits) \cup Elems(Upper) \cup Elems(Lower)

\* char::is_alphanumeric
is_alphanumeric(c) == c \in Alphanumeric

\* the lowercase of each character
LowerOf ==
    [c \in Elems(Ascii) |->
        IF c \in Elems(Upper) THEN Lower[IndexOf(Upper, c)] ELSE c]

\* str::to_lowercase
to_lowercase(str) == [i \in DOMAIN str |-> LowerOf[str[i]]]

\* (mutant) strips the other characters but keeps the case
normalize_genre_keep_case(genre) == SelectSeq(genre, is_alphanumeric)

normalize_genre(genre) == SelectSeq(to_lowercase(genre), is_alphanumeric)

\* str::eq_ignore_ascii_case
eq_ignore_ascii_case(a, b) == to_lowercase(a) = to_lowercase(b)

SUPPORTED_AUDIO_EXTENSIONS ==
    { <<"m", "p", "3">>, <<"f", "l", "a", "c">>, <<"o", "g", "g">>,
      <<"w", "a", "v">>, <<"m", "4", "a">>, <<"a", "a", "c">>,
      <<"w", "m", "a">> }

\* (mutant) compares the extension as it is written
is_audio_file_ext_exact(ext) == ext \in SUPPORTED_AUDIO_EXTENSIONS

is_audio_file_ext(ext) ==
    \E e \in SUPPORTED_AUDIO_EXTENSIONS : eq_ignore_ascii_case(ext, e)

\* a path is its file stem and its extension, if it has one
is_audio_file(path) == path.ext.some /\ is_audio_file_ext(path.ext.v)

\* what lofty finds in a file: (ok = FALSE) the file cannot be read as audio,
\* otherwise the fields of its tag and the duration of the audio in seconds
Unreadable == [ok |-> FALSE]

Tag(album, artist, genre, year, duration) ==
    [ok |-> TRUE, album |-> album, artist |-> artist, genre |-> genre,
     year |-> year, duration |-> duration]

File(stem, ext, content) ==
    [kind |-> "file", path |-> [stem |-> stem, ext |-> ext],
     content |-> content]

\* the root of the walk, a directory
RootDir == [kind |-> "dir", path |-> [stem |-> "music", ext |-> None]]

\* the files a walk can meet
Files ==
    { File("rock", Some(<<"m", "p", "3">>),
           Tag(Some("Debut"), Some("Ana"), Some(<<"R", "o", "c", "k">>), Some(1990), 180)),
      File("loud", Some(<<"m", "p", "3">>),
           Tag(Some("Debut"), Some("Ana"), Some(<<"r", "o", "c", "k", "!">>), Some(1999), 200)),
      File("rocks", Some(<<"o", "g", "g">>),
           Tag(None, Some("Bo"), Some(<<"R", "o", "c", "k", "s">>), Some(2000), 0)),
      File("jazz", Some(<<"w", "a", "v">>),
           Tag(Some("Blue"), None, Some(<<"J", "a", "z", "z">>), Some(1989), 240)),
      File("plain", Some(<<"F", "L", "A", "C">>), Tag(None, None, None, None, 61)),
      File("broken", Some(<<"m", "p", "3">>), Unreadable),
      File("notes", Some(<<"t", "x", "t">>), Unreadable),
      File("README", None, Unreadable) }

\* a directory below the root whose name ends like an audio file
SubDir == [kind |-> "dir", path |-> [stem |-> "live", ext |-> Some(<<"m", "p", "3">>)]]

\* what a walk can yield after the root
Entries == Files \cup {SubDir}

\* an Err item of the walk: at the root, or at an entry below it
WalkErr(root) == [kind |-> "err", root |-> root]

\* HashMap<K, Vec<usize>>: a function from the keys present to the offsets
EmptyMap == <<>>

\* map.entry(key).or_default().push(index)
EntryPush(map, key, index) ==
    [k \in DOMAIN map \cup {key} |->
        IF k \in DOMAIN map
        THEN IF k = key THEN Append(map[k], index) ELSE map[k]
        ELSE <<index>>]

\* Paths are the characters of their text; the disk is keyed by what the
\* operating system makes of them: the names from the root down, with "."
\* and ".." resolved.
PLAYLISTS_SUBDIR == <<"p", "l", "a", "y", "l", "i", "s", "t", "s">>

CONFIG_DIR_NAME == <<"r", "u", "s", "t", "e", "d", "-", "p", "l", "a", "y", "e", "r">>

\* the value of XDG_CONFIG_HOME where it is set
ConfigHome == <<"/", "x">>

\* PathBuf::join: an absolute second path replaces the first
join(base, rel) ==
    IF rel # <<>> /\ rel[1] = "/" THEN rel
    ELSE IF base = <<>> \/ base[Len(base)] = "/" THEN base \o rel
    ELSE base \o <<"/">> \o rel

\* the names between the separators of a path, in order: `names` are the
\* ones before character i, `name` is the one character i belongs to
RECURSIVE Split(_, _, _, _)
Split(path, i, names, name) ==
    LET closed == IF name = <<>> THEN names ELSE Append(names, name)
    IN IF i > Len(path) THEN closed
       ELSE IF path[i] = "/" THEN Split(path, i + 1, closed, <<>>)
       ELSE Split(path, i + 1, names, Append(name, path[i]))

Components(path) == Split(path, 1, <<>>, <<>>)

\* the place a list of names leads to: "." stays, ".." goes up
RECURSIVE Walk(_, _)
Walk(at, names) ==
    IF names = <<>> THEN at
    ELSE IF Head(names) = <<".">> THEN Walk(at, Tail(names))
    ELSE IF Head(names) = <<".", ".">>
         THEN Walk(IF at = <<>> THEN at ELSE SubSeq(at, 1, Len(at) - 1),
                   Tail(names))
    ELSE Walk(Append(at, Head(names)), Tail(names))

Resolve(path) == Walk(<<>>, Components(path))

\* a directory and the directories above it
Ancestors(place) == { SubSeq(place, 1, n) : n \in 0..Len(place) }

\* the value of HOME where it is set
Home == <<"/", "h">>

\* the music directories on the disk: /m and /h/m
MusicDirs == { <<"/", "m">>, <<"/", "h", "/", "m">> }

InitialDirs ==
    UNION { Ancestors(Resolve(dir)) : dir \in MusicDirs \cup {ConfigHome} }

NoFiles == <<>>

NoCall == [op |-> "none"]

\* Config::default()
DefaultConfig == [music_path |-> <<>>]

\* no process
NoMain == [pc |-> "none"]

\* no App yet
NoApp == [status |-> "none"]

\* the PlaylistService as a value
Snapshot == [tracks |-> lib_tracks, genres |-> genres, artists |-> artists]

Init ==
    /\ worker = "Starting"
    /\ pc = "recv"
    /\ device = "unacquired"
    /\ cmd_queue = <<>>
    /\ status_queue = <<>>
    /\ sink = NoSink
    /\ current_volume = InitialVolume
    /\ load = NoLoad
    /\ submitted = 0
    /\ send_result = "None"
    /\ handled = <<>>
    /\ last = NoLast
    /\ status_sends = 0
    /\ ui_volume = InitialVolume
    /\ status_rx = TRUE
    /\ sink_created = "none"
    /\ sender = TRUE
    /\ lib_tracks = <<>>
    /\ genres = EmptyMap
    /\ artists = EmptyMap
    /\ scanning = FALSE
    /\ scan_result = "None"
    /\ visited = <<>>
    /\ before = Snapshot
    /\ disk_dirs = InitialDirs
    /\ disk_files = NoFiles
    /\ store_call = NoCall
    /\ main = NoMain
    /\ launches = 0
    /\ app = NoApp

----------------------------------------------------------------------------
(* The caller *)

\* PlayerService::send: never blocks; Err once the worker has dropped rx
Send(c) ==
    /\ sender
    /\ submitted < MaxCmds
    /\ submitted' = submitted + 1
    /\ IF worker # "Terminated"
       THEN /\ cmd_queue' = Append(cmd_queue, [id |-> submitted + 1, cmd |-> c])
            /\ send_result' = "Ok"
       ELSE /\ cmd_queue' = cmd_queue
            /\ send_result' = "Err"
    /\ UNCHANGED <<worker, pc, device, status_queue, sink, current_volume, load,
                   handled, last, status_sends, ui_volume,
                   status_rx, sink_created,
                   sender, lib_vars, app_vars>>

Submit == \E c \in Commands : Send(c)

\* App::run: while let Ok(status) = receiver.try_recv() { volume = vol }
DrainStatus ==
    /\ status_queue # <<>>
    /\ ui_volume' = status_queue[Len(status_queue)]
    /\ status_queue' = <<>>
    /\ UNCHANGED <<worker, pc, device, cmd_queue, sink, current_volume, load,
                   submitted, send_result, handled, last, status_sends,
                   status_rx, sink_created,
                   sender, lib_vars, app_vars>>

----------------------------------------------------------------------------
(* The worker: player_loop *)

\* OutputStream::try_default() succeeded
StartOk ==
    /\ worker = "Starting"
    /\ worker' = "Running"
    /\ device' = "held"
    /\ UNCHANGED <<pc, cmd_queue, status_queue, sink, current_volume, load,
                   submitted, send_result, handled, last, status_sends, ui_volume,
                   status_rx, sink_created,
                   sender, lib_vars, app_vars>>

\* (mutant) the failure is ignored and the loop is entered
StartFailIgnored ==
    /\ worker = "Starting"
    /\ worker' = "Running"
    /\ device' = "failed"
    /\ UNCHANGED <<pc, cmd_queue, status_queue, sink, current_volume, load,
                   submitted, send_result, handled, last, status_sends, ui_volume,
                   status_rx, sink_created,
                   sender, lib_vars, app_vars>>

\* OutputStream::try_default() failed: `?` returns, rx and status_tx are dropped
StartFail ==
    /\ worker = "Starting"
    /\ worker' = "Terminated"
    /\ device' = "failed"
    /\ cmd_queue' = <<>>
    /\ UNCHANGED <<pc, status_queue, sink, current_volume, load,
                   submitted, send_result, handled, last, status_sends, ui_volume,
                   status_rx, sink_created,
                   sender, lib_vars, app_vars>>

\* (mutant) a channel that hands out the newest message first
Newest(q) == q[Len(q)]

\* the message rx.recv() returns: the oldest one in the channel
Oldest(q) == q[1]

\* the channel once that message is taken
Rest(q) == Tail(q)

Current == Oldest(cmd_queue).cmd

\* while let Ok(cmd) = rx.recv(), with cmd of type t
Recv(t) ==
    /\ worker = "Running"
    /\ pc = "recv"
    /\ cmd_queue # <<>>
    /\ Current.type = t
    /\ cmd_queue' = Rest(cmd_queue)
    /\ handled' = Append(handled, Oldest(cmd_queue).id)
    /\ last' = Taken(Oldest(cmd_queue))

\* (mutant) the previous sink is left in place
KeepPrevious(s) == s

\* if let Some(s) = sink.take() { s.stop(); }
StopPrevious(s) == NoSink

\* (mutant) a failed first decode gives up at once
DecodeSingleNoRetry(p) ==
    IF ~FileOpens(p) THEN "open_failed"
    ELSE IF DecodesDefault(p) THEN "decoded"
    ELSE "decode_failed"

\* the number of calls of Decoder::new play_single_song makes for p
DecodeAttempts(p) ==
    IF ~FileOpens(p) THEN 0
    ELSE IF DecodesDefault(p) THEN 1
    ELSE IF ~FileOpens(p) THEN 1
    ELSE 2

\* play_single_song after the take: Ok(source) or an early return
DecodeSingle(p) ==
    IF ~FileOpens(p) THEN "open_failed"
    ELSE IF DecodesDefault(p) THEN "decoded"
    ELSE IF ~FileOpens(p) THEN "open_failed"
    ELSE IF DecodesSmallBuf(p) THEN "decoded"
    ELSE "decode_failed"

\* the value of *sink when play_single_song returns
PlaySingleSong(s, p, volume, created) ==
    IF DecodeSingle(p) = "decoded" /\ created
    THEN SinkAppend(NewSink(volume), p)
    ELSE StopPrevious(s)

\* what Sink::try_new returned in play_single_song, if it got that far
TryNewResult(p, created) ==
    IF DecodeSingle(p) # "decoded" THEN "none"
    ELSE IF created THEN "ok" ELSE "failed"

HandlePlaySong ==
    /\ Recv("PlaySong")
    /\ \E created \in BOOLEAN :
          /\ sink' = PlaySingleSong(sink, Current.path, current_volume, created)
          /\ sink_created' = TryNewResult(Current.path, created)
    /\ UNCHANGED <<worker, pc, device, status_queue, current_volume, load,
                   submitted, send_result, status_sends, ui_volume, status_rx,
                   sender, lib_vars, app_vars>>

\* play_tracks up to the loop: take and stop, Sink::try_new, set_volume
BeginPlayTracks(tracks) ==
    \E created \in BOOLEAN :
       /\ sink' = StopPrevious(sink)
       /\ sink_created' = IF created THEN "ok" ELSE "failed"
       /\ IF created
          THEN /\ load' = [active |-> TRUE, tracks |-> tracks,
                           new_sink |-> NewSink(current_volume),
                           waiting |-> Len(cmd_queue')]
               /\ pc' = "load"
          ELSE /\ load' = load
               /\ pc' = pc

HandlePlayAlbum ==
    /\ Recv("PlayAlbum")
    /\ BeginPlayTracks(Current.tracks)
    /\ UNCHANGED <<worker, device, status_queue, current_volume,
                   submitted, send_result, status_sends, ui_volume, status_rx,
                   sender, lib_vars, app_vars>>

HandlePlayShuffle ==
    /\ Recv("PlayShuffle")
    /\ \E shuffled \in Shuffles(Current.tracks) : BeginPlayTracks(shuffled)
    /\ UNCHANGED <<worker, device, status_queue, current_volume,
                   submitted, send_result, status_sends, ui_volume, status_rx,
                   sender, lib_vars, app_vars>>

\* (mutant) no second attempt with the small buffer
TrackDecodesNoFallback(p) == FileOpens(p) /\ DecodesDefault(p)

\* one iteration of `for path in tracks`: TRUE when a source is appended
TrackDecodes(p) ==
    /\ FileOpens(p)
    /\ \/ DecodesDefault(p)
       \/ FileOpens(p) /\ DecodesSmallBuf(p)

\* the body of the loop: a file that fails is skipped
LoadedSink(s, p) == IF TrackDecodes(p) THEN SinkAppend(s, p) ELSE s

\* for path in tracks { ... } on the new sink s
RECURSIVE LoadAll(_, _)
LoadAll(s, tracks) ==
    IF tracks = <<>> THEN s
    ELSE LoadAll(LoadedSink(s, Head(tracks)), Tail(tracks))

\* (mutant) a sink that received no source is dropped instead of stored
FinishLoadDropsEmpty ==
    /\ worker = "Running"
    /\ pc = "load"
    /\ sink' = IF LoadAll(load.new_sink, load.tracks).queue = <<>>
               THEN NoSink
               ELSE LoadAll(load.new_sink, load.tracks)
    /\ load' = NoLoad
    /\ pc' = "recv"
    /\ UNCHANGED <<worker, device, cmd_queue, status_queue, current_volume,
                   submitted, send_result, handled, last, status_sends,
                   ui_volume, status_rx, sink_created, sender, lib_vars,
                   app_vars>>

\* the loop of play_tracks, then *sink = Some(new_sink); Ok(())
FinishLoad ==
    /\ worker = "Running"
    /\ pc = "load"
    /\ sink' = LoadAll(load.new_sink, load.tracks)
    /\ load' = NoLoad
    /\ pc' = "recv"
    /\ UNCHANGED <<worker, device, cmd_queue, status_queue, current_volume,
                   submitted, send_result, handled, last, status_sends, ui_volume,
                   status_rx, sink_created,
                   sender, lib_vars, app_vars>>

\* (mutant) pauses, never resumes
PausedOnly(s) == IF s.live THEN [s EXCEPT !.paused = TRUE] ELSE s

\* if s.is_paused() { s.play() } else { s.pause() }
Toggled(s) == IF s.live THEN [s EXCEPT !.paused = ~@] ELSE s

HandleTogglePause ==
    /\ Recv("TogglePause")
    /\ sink' = Toggled(sink)
    /\ UNCHANGED <<worker, pc, device, status_queue, current_volume, load,
                   submitted, send_result, status_sends, ui_volume,
                   status_rx, sink_created,
                   sender, lib_vars, app_vars>>

\* update_volume: if let Some(s) = sink { s.set_volume(volume) }
VolumeApplied(s, volume) == IF s.live THEN [s EXCEPT !.volume = volume] ELSE s

\* (mutant) the status is sent only while a sink is live
StatusSentIfLive(q, volume) == IF sink.live THEN Append(q, volume) ELSE q

\* update_volume: status_tx.send(PlayerStatus::Volume(volume)); the send is
\* an Err, and nothing is queued, once the Receiver is gone
StatusSent(q, volume) == IF status_rx THEN Append(q, volume) ELSE q

\* (mutant) a failed status send returns before the volume is stored
update_volume_or_bail(volume) ==
    /\ sink' = VolumeApplied(sink, volume)
    /\ status_queue' = StatusSent(status_queue, volume)
    /\ status_sends' = status_sends + 1
    /\ current_volume' = IF status_rx THEN volume ELSE current_volume

update_volume(volume) ==
    /\ sink' = VolumeApplied(sink, volume)
    /\ status_queue' = StatusSent(status_queue, volume)
    /\ status_sends' = status_sends + 1
    /\ current_volume' = volume

SetVolumeTarget(volume) == F32Clamp(volume, MinVolume, MaxVolume)

VolumeUpTarget(volume) == F32Min(F32Add(volume, VolumeStep), MaxVolume)

VolumeDownTarget(volume) == F32Max(F32Sub(volume, VolumeStep), MinVolume)

HandleSetVolume ==
    /\ Recv("SetVolume")
    /\ update_volume(SetVolumeTarget(Current.volume))
    /\ UNCHANGED <<worker, pc, device, load, submitted, send_result, ui_volume,
                   status_rx, sink_created,
                   sender, lib_vars, app_vars>>

HandleVolumeUp ==
    /\ Recv("VolumeUp")
    /\ update_volume(VolumeUpTarget(current_volume))
    /\ UNCHANGED <<worker, pc, device, load, submitted, send_result, ui_volume,
                   status_rx, sink_created,
                   sender, lib_vars, app_vars>>

HandleVolumeDown ==
    /\ Recv("VolumeDown")
    /\ update_volume(VolumeDownTarget(current_volume))
    /\ UNCHANGED <<worker, pc, device, load, submitted, send_result, ui_volume,
                   status_rx, sink_created,
                   sender, lib_vars, app_vars>>

\* (mutant) Stop pauses the sink instead of releasing it
HandleStopPauses ==
    /\ Recv("Stop")
    /\ sink' = PausedOnly(sink)
    /\ UNCHANGED <<worker, pc, device, status_queue, current_volume, load,
                   submitted, send_result, status_sends, ui_volume,
                   status_rx, sink_created,
                   sender, lib_vars, app_vars>>

HandleStop ==
    /\ Recv("Stop")
    /\ sink' = StopPrevious(sink)
    /\ UNCHANGED <<worker, pc, device, status_queue, current_volume, load,
                   submitted, send_result, status_sends, ui_volume,
                   status_rx, sink_created,
                   sender, lib_vars, app_vars>>

\* (mutant) SkipNext empties the whole queue of the sink
SkippedAll(s) == IF s.live THEN [s EXCEPT !.queue = <<>>] ELSE s

\* Sink::skip_one: drops the source at the front of the sink's queue
Skipped(s) ==
    IF s.live /\ s.queue # <<>> THEN [s EXCEPT !.queue = Tail(@)] ELSE s

HandleSkipNext ==
    /\ Recv("SkipNext")
    /\ sink' = Skipped(sink)
    /\ UNCHANGED <<worker, pc, device, status_queue, current_volume, load,
                   submitted, send_result, status_sends, ui_volume,
                   status_rx, sink_created,
                   sender, lib_vars, app_vars>>

\* (mutant) Quit without the break: the loop goes on
HandleQuitNoBreak ==
    /\ Recv("Quit")
    /\ sink' = StopPrevious(sink)
    /\ UNCHANGED <<worker, pc, device, status_queue, current_volume, load,
                   submitted, send_result, status_sends, ui_volume,
                   status_rx, sink_created,
                   sender, lib_vars, app_vars>>

\* Quit: take and stop the sink, break; returning drops _stream, status_tx
\* and rx, and with rx the commands still queued
HandleQuit ==
    /\ worker = "Running"
    /\ pc = "recv"
    /\ cmd_queue # <<>>
    /\ Current.type = "Quit"
    /\ handled' = Append(handled, Oldest(cmd_queue).id)
    /\ last' = Taken(Oldest(cmd_queue))
    /\ sink' = StopPrevious(sink)
    /\ worker' = "Terminated"
    /\ device' = "released"
    /\ cmd_queue' = <<>>
    /\ UNCHANGED <<pc, status_queue, current_volume, load,
                   submitted, send_result, status_sends, ui_volume,
                   status_rx, sink_created,
                   sender, lib_vars, app_vars>>

\* the arms of the match in player_loop
Handle ==
    \/ HandlePlaySong
    \/ HandlePlayAlbum
    \/ HandlePlayShuffle
    \/ HandleTogglePause
    \/ HandleSetVolume
    \/ HandleVolumeUp
    \/ HandleVolumeDown
    \/ HandleStop
    \/ HandleSkipNext
    \/ HandleQuit

Next ==
    \/ Submit
    \/ DrainStatus
    \/ StartOk
    \/ StartFail
    \/ HandlePlaySong
    \/ HandlePlayAlbum
    \/ HandlePlayShuffle
    \/ FinishLoad
    \/ HandleTogglePause
    \/ HandleSetVolume
    \/ HandleVolumeUp
    \/ HandleVolumeDown
    \/ HandleStop
    \/ HandleSkipNext
    \/ HandleQuit

Spec == Init /\ [][Next]_vars

\* the caller gives up the Receiver of the status channel (PlayerService's
\* public field `receiver`); what is queued in the channel goes with it
DropStatusReceiver ==
    /\ status_rx
    /\ status_rx' = FALSE
    /\ status_queue' = <<>>
    /\ UNCHANGED <<worker, pc, device, cmd_queue, sink, current_volume, load,
                   submitted, send_result, handled, last, status_sends,
                   ui_volume, sink_created,
                   sender, lib_vars, app_vars>>

\* the commands sent to that engine: every kind, one load of each kind
DropCommands ==
    { [type |-> "PlaySong", path |-> "a.mp3"],
      [type |-> "PlayAlbum", tracks |-> <<"a.mp3", "x.mp3", "b.flac">>],
      [type |-> "PlayShuffle", tracks |-> <<"x.mp3", "gone.ogg">>] }
    \cup [type : {"SetVolume"}, volume : VolumeArgs]
    \cup { Cmd("TogglePause"), Cmd("VolumeUp"), Cmd("VolumeDown"),
           Cmd("Stop"), Cmd("SkipNext"), Cmd("Quit") }

SubmitDrop == \E c \in DropCommands : Send(c)

NextDrop ==
    \/ SubmitDrop
    \/ DropStatusReceiver
    \/ DrainStatus
    \/ StartOk
    \/ StartFail
    \/ HandlePlaySong
    \/ HandlePlayAlbum
    \/ HandlePlayShuffle
    \/ FinishLoad
    \/ HandleTogglePause
    \/ HandleSetVolume
    \/ HandleVolumeUp
    \/ HandleVolumeDown
    \/ HandleStop
    \/ HandleSkipNext
    \/ HandleQuit

\* the engine with a caller that may stop listening
SpecDrop == Init /\ [][NextDrop]_vars

\* (mutant) what is queued in the command channel goes with the Sender
DropDiscardsQueue ==
    /\ sender
    /\ sender' = FALSE
    /\ status_rx' = FALSE
    /\ status_queue' = <<>>
    /\ cmd_queue' = <<>>
    /\ UNCHANGED <<worker, pc, device, sink, current_volume, load,
                   submitted, send_result, handled, last, status_sends,
                   ui_volume, sink_created,
                   lib_vars, app_vars>>

\* the caller drops the PlayerService: its Sender and its Receiver go, the
\* commands already in the channel stay
DropPlayerService ==
    /\ sender
    /\ sender' = FALSE
    /\ status_rx' = FALSE
    /\ status_queue' = <<>>
    /\ UNCHANGED <<worker, pc, device, cmd_queue, sink, current_volume, load,
                   submitted, send_result, handled, last, status_sends,
                   ui_volume, sink_created,
                   lib_vars, app_vars>>

\* rx.recv() returns Err: the channel is empty and no Sender is left; the
\* loop ends, player_loop returns Ok(()) and drops sink and _stream
RecvDisconnected ==
    /\ worker = "Running"
    /\ pc = "recv"
    /\ cmd_queue = <<>>
    /\ ~sender
    /\ worker' = "Terminated"
    /\ device' = "released"
    /\ sink' = NoSink
    /\ UNCHANGED <<pc, cmd_queue, status_queue, current_volume, load,
                   submitted, send_result, handled, last, status_sends,
                   ui_volume, status_rx, sink_created,
                   sender, lib_vars, app_vars>>

\* the commands of a caller that never sends Quit
QuitlessCommands ==
    { [type |-> "PlayAlbum", tracks |-> <<"a.mp3", "x.mp3">>],
      Cmd("VolumeUp"), Cmd("Stop") }

SubmitQuitless == \E c \in QuitlessCommands : Send(c)

\* a step of the worker thread
WorkerStep ==
    \/ StartOk
    \/ StartFail
    \/ HandlePlayAlbum
    \/ FinishLoad
    \/ HandleVolumeUp
    \/ HandleStop
    \/ RecvDisconnected

NextQuitless ==
    \/ SubmitQuitless
    \/ DrainStatus
    \/ DropPlayerService
    \/ StartOk
    \/ StartFail
    \/ HandlePlayAlbum
    \/ FinishLoad
    \/ HandleVolumeUp
    \/ HandleStop
    \/ RecvDisconnected

\* the engine with a caller that goes without sending Quit
SpecQuitless == Init /\ [][NextQuitless]_vars

\* the same with a worker thread that is scheduled whenever it can run
FairSpecQuitless == SpecQuitless /\ WF_vars(WorkerStep)

----------------------------------------------------------------------------
(* The library index: PlaylistService *)

engine_vars == <<worker, pc, device, cmd_queue, status_queue, sink,
                 current_volume, load, submitted, send_result, handled, last,
                 status_sends, ui_volume, status_rx, sink_created, sender>>

Min3(a, b, c) ==
    IF a <= b /\ a <= c THEN a ELSE IF b <= c THEN b ELSE c

\* the number of insertions, deletions and substitutions between two strings
RECURSIVE EditDistance(_, _)
EditDistance(a, b) ==
    IF a = <<>> THEN Len(b)
    ELSE IF b = <<>> THEN Len(a)
    ELSE IF Head(a) = Head(b) THEN EditDistance(Tail(a), Tail(b))
    ELSE 1 + Min3(EditDistance(Tail(a), b), EditDistance(a, Tail(b)),
                  EditDistance(Tail(a), Tail(b)))

\* (mutant) keeps the tracks' offsets in the maps
clear_tracks_only ==
    /\ lib_tracks' = <<>>
    /\ UNCHANGED <<genres, artists>>

clear_database ==
    /\ lib_tracks' = <<>>
    /\ genres' = EmptyMap
    /\ artists' = EmptyMap

\* (mutant) a scan that adds to what is there
BeginScanKeeping ==
    /\ ~scanning
    /\ before' = Snapshot
    /\ scanning' = TRUE
    /\ scan_result' = "None"
    /\ visited' = <<>>
    /\ UNCHANGED <<lib_tracks, genres, artists, engine_vars, app_vars>>

\* scan_directory up to its loop
BeginScan ==
    /\ ~scanning
    /\ before' = Snapshot
    /\ clear_database
    /\ scanning' = TRUE
    /\ scan_result' = "None"
    /\ visited' = <<>>
    /\ UNCHANGED <<engine_vars, app_vars>>

\* the Result of extract_metadata
extract_metadata(file) ==
    IF file.content.ok
    THEN [ok |-> TRUE,
          metadata |-> [path |-> file.path,
                        album |-> file.content.album,
                        artist |-> file.content.artist,
                        genre |-> file.content.genre,
                        year |-> file.content.year,
                        duration |-> Some(file.content.duration)]]
    ELSE [ok |-> FALSE]

\* (mutant) a tag within edit distance 2 of an existing key joins that group
GenreInsertFuzzy(map, genre, index) ==
    IF ~genre.some THEN map
    ELSE LET normalized == normalize_genre(genre.v)
             near == { k \in DOMAIN map : EditDistance(k, normalized) <= 2 }
         IN  IF near = {} THEN EntryPush(map, normalized, index)
             ELSE EntryPush(map, CHOOSE k \in near : TRUE, index)

\* (mutant) the group is keyed by the tag as it is written
GenreInsertRaw(map, genre, index) ==
    IF genre.some THEN EntryPush(map, genre.v, index) ELSE map

\* if let Some(ref genre) = metadata.genre { ... }
GenreInsert(map, genre, index) ==
    IF genre.some THEN EntryPush(map, normalize_genre(genre.v), index) ELSE map

\* if let Some(ref artist) = metadata.artist { ... }
ArtistInsert(map, artist, index) ==
    IF artist.some THEN EntryPush(map, artist.v, index) ELSE map

NoMetadata(path) ==
    [path |-> path, album |-> None, artist |-> None, genre |-> None,
     year |-> None, duration |-> None]

\* (mutant) a file without readable tags is left out
SkipUntagged(ts, path) == ts

\* the Err arm of the match on extract_metadata
PushUntagged(ts, path) == Append(ts, NoMetadata(path))

\* one iteration of the loop over WalkDir on an Ok item, for a walk of at
\* most MaxEntries items over Files
\* the body of the loop over WalkDir for an Ok item
ScanEntry(entry) ==
    /\ visited' = Append(visited, entry)
    /\ IF entry.kind = "file" /\ is_audio_file(entry.path)
       THEN LET result == extract_metadata(entry)
                index == Len(lib_tracks)
            IN  IF result.ok
                THEN /\ genres' = GenreInsert(genres, result.metadata.genre, index)
                     /\ artists' = ArtistInsert(artists, result.metadata.artist, index)
                     /\ lib_tracks' = Append(lib_tracks, result.metadata)
                ELSE /\ lib_tracks' = PushUntagged(lib_tracks, entry.path)
                     /\ UNCHANGED <<genres, artists>>
       ELSE UNCHANGED <<lib_tracks, genres, artists>>
    /\ UNCHANGED <<scanning, scan_result, before, engine_vars, app_vars>>

VisitEntry(entry) ==
    /\ scanning
    /\ Len(visited) < MaxEntries
    /\ IF visited = <<>> THEN entry = RootDir ELSE entry \in Entries
    /\ ScanEntry(entry)

Visit == \E entry \in Entries \cup {RootDir} : VisitEntry(entry)

\* `let entry = entry?` on an Err item: the root cannot be opened or read,
\* or an entry below it cannot
WalkError(root) ==
    /\ scanning
    /\ Len(visited) < MaxEntries
    /\ IF root THEN visited \in {<<>>, <<RootDir>>} ELSE visited # <<>>
    /\ visited' = Append(visited, WalkErr(root))
    /\ scanning' = FALSE
    /\ scan_result' = "Err"
    /\ UNCHANGED <<lib_tracks, genres, artists, before, engine_vars, app_vars>>

WalkFails == \E root \in BOOLEAN : WalkError(root)

\* the walk is over: Ok(())
EndScan ==
    /\ scanning
    /\ visited # <<>>
    /\ scanning' = FALSE
    /\ scan_result' = "Ok"
    /\ UNCHANGED <<lib_tracks, genres, artists, visited, before, engine_vars, app_vars>>

NextLib ==
    \/ BeginScan
    \/ Visit
    \/ WalkFails
    \/ EndScan

SpecLib == Init /\ [][NextLib]_vars

\* A directory of files tagged with an artist only: the first six have six
\* artists, the next ones repeat them.  "Ana" and "ana" are two artists.
ShelfStems == <<"t01", "t02", "t03", "t04", "t05", "t06", "t07", "t08", "t09", "t10">>

ShelfArtists == <<"Ana", "ana", "Bo", "Cy", "Di", "Ed">>

ShelfFile(i) ==
    File(ShelfStems[i], Some(<<"m", "p", "3">>),
         Tag(None, Some(ShelfArtists[((i - 1) % Len(ShelfArtists)) + 1]), None, None, 100))

ShelfPos(item) ==
    IF item.kind = "dir" THEN 0
    ELSE CHOOSE i \in DOMAIN ShelfStems : ShelfStems[i] = item.path.stem

\* one iteration of the loop for a walk that yields the root and then some
\* of the first MaxShelf files of the shelf, each once, in their order
VisitShelf ==
    /\ scanning
    /\ \/ /\ visited = <<>>
          /\ ScanEntry(RootDir)
       \/ \E i \in 1..MaxShelf :
             /\ visited # <<>>
             /\ i > ShelfPos(visited[Len(visited)])
             /\ ScanEntry(ShelfFile(i))

\* the first call of scan_directory on a new PlaylistService
BeginFirstScan ==
    /\ scan_result = "None"
    /\ BeginScan

NextTop ==
    \/ BeginFirstScan
    \/ VisitShelf
    \/ EndScan

\* one scan of the shelf, for the queries over artists
SpecTop == Init /\ [][NextTop]_vars

\* the place of each character in the order of code points
CodeOf == [c \in Elems(Ascii) |-> IndexOf(Ascii, c)]

\* the order of str: by code point, a prefix first
RECURSIVE StrLess(_, _)
StrLess(a, b) ==
    IF b = <<>> THEN FALSE
    ELSE IF a = <<>> THEN TRUE
    ELSE IF Head(a) = Head(b) THEN StrLess(Tail(a), Tail(b))
    ELSE CodeOf[Head(a)] < CodeOf[Head(b)]

RECURSIVE Sorted(_)
Sorted(keys) ==
    IF keys = {} THEN <<>>
    ELSE LET least == CHOOSE k \in keys : \A other \in keys \ {k} : StrLess(k, other)
         IN  <<least>> \o Sorted(keys \ {least})

get_genres == Sorted(DOMAIN genres)

\* (mutant) looks the name up as it is written
get_playlist_by_raw_genre(genre) ==
    IF genre \in DOMAIN genres
    THEN [i \in DOMAIN genres[genre] |-> lib_tracks[genres[genre][i] + 1].path]
    ELSE <<>>

get_playlist_by_genre(genre) ==
    LET normalized == normalize_genre(genre)
    IN  IF normalized \in DOMAIN genres
        THEN [i \in DOMAIN genres[normalized] |->
                 lib_tracks[genres[normalized][i] + 1].path]
        ELSE <<>>

\* the orders in which HashMap::iter can yield the keys of artists: the order
\* is not specified, every order of the keys is possible
IterationOrders ==
    { order \in [1..Cardinality(DOMAIN artists) -> DOMAIN artists] :
        \A i, j \in DOMAIN order : i # j => order[i] # order[j] }

\* where sort_by puts the next element: behind those that do not count less
InsertByCount(sorted, x) ==
    LET k == Cardinality({ i \in DOMAIN sorted : sorted[i][2] >= x[2] })
    IN  SubSeq(sorted, 1, k) \o <<x>> \o SubSeq(sorted, k + 1, Len(sorted))

\* artists.sort_by(|a, b| b.1.cmp(&a.1)): stable, the greater count first
RECURSIVE SortByCount(_)
SortByCount(s) ==
    IF s = <<>> THEN <<>>
    ELSE InsertByCount(SortByCount(SubSeq(s, 1, Len(s) - 1)), s[Len(s)])

\* Vec::truncate
truncate(s, len) == IF Len(s) > len THEN SubSeq(s, 1, len) ELSE s

\* (mutant) cuts the list before it sorts it
get_top_artists_cut_first(order) ==
    SortByCount(truncate([i \in DOMAIN order |-> <<order[i], Len(artists[order[i]])>>],
                         TopLimit))

\* get_top_artists when artists.iter() yields the keys in the given order
get_top_artists(order) ==
    truncate(SortByCount([i \in DOMAIN order |-> <<order[i], Len(artists[order[i]])>>]),
             TopLimit)

\* self.tracks.iter().filter_map(|t| t.duration).sum()
RECURSIVE SumDurations(_)
SumDurations(ts) ==
    IF ts = <<>> THEN 0
    ELSE (IF Head(ts).duration.some THEN Head(ts).duration.v ELSE 0)
         + SumDurations(Tail(ts))

\* (mutant) counts the tracks that have an album
get_stats_album_tracks ==
    [total_tracks |-> Len(lib_tracks),
     total_genres |-> Cardinality(DOMAIN genres),
     total_albums |-> Cardinality({ j \in DOMAIN lib_tracks : lib_tracks[j].album.some }),
     total_duration |-> SumDurations(lib_tracks)]

get_stats ==
    [total_tracks |-> Len(lib_tracks),
     total_genres |-> Cardinality(DOMAIN genres),
     total_albums |-> Cardinality({ lib_tracks[i].album.v :
                         i \in { j \in DOMAIN lib_tracks : lib_tracks[j].album.some } }),
     total_duration |-> SumDurations(lib_tracks)]

\* the decimal digits of a number, as format! writes them
RECURSIVE Decimal(_)
Decimal(n) ==
    IF n < 10 THEN <<Digits[n + 1]>>
    ELSE Decimal(n \div 10) \o <<Digits[(n % 10) + 1]>>

\* (mutant) the nearest decade
NearestDecade(year) == ((year + 5) \div 10) * 10

\* let decade = (year / 10) * 10
DecadeOf(year) == (year \div 10) * 10

\* format!("{}s", decade)
DecadeKey(decade) == Decimal(decade) \o <<"s">>

\* *decades.entry(key).or_insert(0) += 1
Counted(decades, key) ==
    [k \in DOMAIN decades \cup {key} |->
        (IF k \in DOMAIN decades THEN decades[k] ELSE 0) + (IF k = key THEN 1 ELSE 0)]

\* the loop of get_tracks_by_decade over the given tracks
RECURSIVE CountDecades(_, _)
CountDecades(ts, decades) ==
    IF ts = <<>> THEN decades
    ELSE CountDecades(Tail(ts),
                      IF Head(ts).year.some
                      THEN Counted(decades, DecadeKey(DecadeOf(Head(ts).year.v)))
                      ELSE decades)

get_tracks_by_decade == CountDecades(lib_tracks, EmptyMap)

----------------------------------------------------------------------------
(* Playlist files: playlist_storage_service *)

Ok(v) == [ok |-> TRUE, v |-> v]

Err(e) == [ok |-> FALSE, e |-> e]

\* a call of std::fs or Path, by the place on the disk it goes to
FsCall(call, path) == [call |-> call, place |-> Resolve(path)]

\* the disk as a value, with the calls made on it so far
TheDisk == [dirs |-> disk_dirs, files |-> disk_files, log |-> <<>>]

Logged(disk, call, path) == [disk EXCEPT !.log = Append(@, FsCall(call, path))]

\* the names a caller may pass
PlaylistNames ==
    { <<>>, <<".">>, <<".", ".">>, <<" ">>,
      <<".", ".", "/", "m", "i", "x">>, <<"/", "t", "m", "p">>,
      <<"a", "\\", "b">>, <<"c", ":">>, <<"*">>, <<"?">>, <<"\"">>,
      <<"<">>, <<">">>, <<"a", "|">>,
      <<"m", "i", "x">>, <<".", ".", ".">> }

\* a track path of a playlist; serde writes a PathBuf only if it is UTF-8
TrackLists ==
    { << [text |-> "a.mp3", utf8 |-> TRUE] >>,
      << [text |-> "b.ogg", utf8 |-> FALSE] >> }

\* XDG_CONFIG_HOME as the call finds it; without it and the other three
\* variables there is no configuration directory
Environments == {None, Some(ConfigHome)}

\* (mutant) only the empty name is refused
validate_nonempty_name(name) ==
    IF name = <<>> THEN Err("InvalidName") ELSE Ok(<<>>)

validate_playlist_name(name) ==
    LET invalid_chars == {"/", "\\", ":", "*", "?", "\"", "<", ">", "|"}
        dangerous == { <<".">>, <<".", ".">>, <<>>, <<" ">> }
    IN IF name = <<>> THEN Err("InvalidName")
       ELSE IF \E i \in DOMAIN name : name[i] \in invalid_chars
            THEN Err("InvalidName")
       ELSE IF name \in dangerous THEN Err("InvalidName")
       ELSE Ok(<<>>)

\* if !dir.exists() { create_dir_all(dir)? }
ensure_dir_exists(dir, disk, io_ok) ==
    LET probed == Logged(disk, "exists", dir)
        tried == Logged(probed, "create_dir_all", dir)
    IN IF Resolve(dir) \in disk.dirs THEN [res |-> Ok(dir), disk |-> probed]
       ELSE IF io_ok
            THEN [res |-> Ok(dir),
                  disk |-> [tried EXCEPT
                               !.dirs = @ \cup Ancestors(Resolve(dir))]]
       ELSE [res |-> Err("Io"), disk |-> tried]

get_config_dir(env, disk, io_ok) ==
    IF env = None THEN [res |-> Err("InvalidName"), disk |-> disk]
    ELSE ensure_dir_exists(join(env.v, CONFIG_DIR_NAME), disk, io_ok)

\* playlists_dir once get_config_dir has returned
PlaylistsIn(config, io_ok) ==
    IF ~config.res.ok THEN config
    ELSE ensure_dir_exists(join(config.res.v, PLAYLISTS_SUBDIR),
                           config.disk, io_ok)

playlists_dir(env, disk, io_ok) ==
    PlaylistsIn(get_config_dir(env, disk, io_ok), io_ok)

\* format!("{}.json", name)
JsonName(name) == name \o <<".", "j", "s", "o", "n">>

\* playlist_file_path once playlists_dir has returned
FileIn(dir, name) ==
    IF ~dir.res.ok THEN dir
    ELSE [res |-> Ok(join(dir.res.v, JsonName(name))), disk |-> dir.disk]

playlist_file_path(name, env, disk, io_ok) ==
    IF ~validate_playlist_name(name).ok
    THEN [res |-> validate_playlist_name(name), disk |-> disk]
    ELSE FileIn(playlists_dir(env, disk, io_ok), name)

\* serde_json::to_string_pretty of a Playlist
to_string_pretty(playlist) ==
    IF \A i \in DOMAIN playlist.tracks : playlist.tracks[i].utf8
    THEN Ok([name |-> playlist.name,
             tracks |-> [i \in DOMAIN playlist.tracks |->
                            playlist.tracks[i].text]])
    ELSE Err("Serialization")

\* serde_json::from_str::<Playlist>
from_str(content) ==
    Ok([name |-> content.name,
        tracks |-> [i \in DOMAIN content.tracks |->
                       [text |-> content.tracks[i], utf8 |-> TRUE]]])

\* the files with one written or replaced
WithFile(files, place, content) ==
    [f \in DOMAIN files \cup {place} |->
        IF f = place THEN content ELSE files[f]]

\* the files with one removed
WithoutFile(files, place) == [f \in DOMAIN files \ {place} |-> files[f]]

\* save_playlist once playlist_file_path has returned
WriteJson(path, json, io_ok) ==
    IF ~path.res.ok THEN path
    ELSE IF ~json.ok THEN [res |-> json, disk |-> path.disk]
    ELSE IF ~io_ok
         THEN [res |-> Err("Io"),
               disk |-> Logged(path.disk, "write", path.res.v)]
    ELSE [res |-> Ok(<<>>),
          disk |-> [Logged(path.disk, "write", path.res.v) EXCEPT
                       !.files = WithFile(@, Resolve(path.res.v), json.v)]]

save_playlist(playlist, env, disk, io_ok) ==
    WriteJson(playlist_file_path(playlist.name, env, disk, io_ok),
              to_string_pretty(playlist), io_ok)

\* load_playlist once path.exists() has returned true
ReadJson(place, disk, io_ok) ==
    IF ~io_ok THEN [res |-> Err("Io"), disk |-> disk]
    ELSE [res |-> Ok(Some(from_str(disk.files[place]).v)), disk |-> disk]

\* load_playlist once playlist_file_path has returned
LoadFrom(path, io_ok) ==
    IF ~path.res.ok THEN path
    ELSE IF Resolve(path.res.v) \notin DOMAIN path.disk.files
         THEN [res |-> Ok(None),
               disk |-> Logged(path.disk, "exists", path.res.v)]
    ELSE ReadJson(Resolve(path.res.v),
                  Logged(Logged(path.disk, "exists", path.res.v),
                         "read_to_string", path.res.v),
                  io_ok)

load_playlist(name, env, disk, io_ok) ==
    LoadFrom(playlist_file_path(name, env, disk, io_ok), io_ok)

\* delete_playlist once playlist_file_path has returned
RemoveFile(path, io_ok) ==
    IF ~path.res.ok THEN path
    ELSE IF Resolve(path.res.v) \notin DOMAIN path.disk.files
         THEN [res |-> Ok(FALSE),
               disk |-> Logged(path.disk, "remove_file", path.res.v)]
    ELSE IF ~io_ok
         THEN [res |-> Err("Io"),
               disk |-> Logged(path.disk, "remove_file", path.res.v)]
    ELSE [res |-> Ok(TRUE),
          disk |-> [Logged(path.disk, "remove_file", path.res.v) EXCEPT
                       !.files = WithoutFile(@, Resolve(path.res.v))]]

delete_playlist(playlist_name, env, disk, io_ok) ==
    RemoveFile(playlist_file_path(playlist_name, env, disk, io_ok), io_ok)

\* a call returns: the disk is as the call left it, and the call is kept
\* with its arguments, its result, the calls it made and the disk it found
Returns(op, name, out) ==
    /\ disk_dirs' = out.disk.dirs
    /\ disk_files' = out.disk.files
    /\ store_call' = [op |-> op, name |-> name, result |-> out.res,
                      log |-> out.disk.log,
                      dirs |-> disk_dirs, files |-> disk_files]

SavePlaylist ==
    \E name \in PlaylistNames, tracks \in TrackLists,
       env \in Environments, io_ok \in BOOLEAN :
       /\ Returns("save_playlist", name,
                  save_playlist([name |-> name, tracks |-> tracks],
                                env, TheDisk, io_ok))
       /\ UNCHANGED <<engine_vars, lib_vars, main, launches, app>>

LoadPlaylist ==
    \E name \in PlaylistNames, env \in Environments, io_ok \in BOOLEAN :
       /\ Returns("load_playlist", name,
                  load_playlist(name, env, TheDisk, io_ok))
       /\ UNCHANGED <<engine_vars, lib_vars, main, launches, app>>

DeletePlaylist ==
    \E name \in PlaylistNames, env \in Environments, io_ok \in BOOLEAN :
       /\ Returns("delete_playlist", name,
                  delete_playlist(name, env, TheDisk, io_ok))
       /\ UNCHANGED <<engine_vars, lib_vars, main, launches, app>>

NextStore ==
    \/ SavePlaylist
    \/ LoadPlaylist
    \/ DeletePlaylist

\* the playlist files and their callers
SpecStore == Init /\ [][NextStore]_vars

----------------------------------------------------------------------------
(* The program: main and config_service *)

CONFIG_FILE_NAME == <<"c", "o", "n", "f", "i", "g", ".", "j", "s", "o", "n">>

\* the environment a call finds: XDG_CONFIG_HOME and HOME, each set or not
\* (the configuration directory is taken from the first)
MainEnvironments ==
    { [xdg |-> None, home |-> None],
      [xdg |-> Some(ConfigHome), home |-> None],
      [xdg |-> Some(ConfigHome), home |-> Some(Home)] }

\* get_config_path once the directory is there
ConfigFileIn(dir) ==
    IF ~dir.res.ok THEN dir
    ELSE [res |-> Ok(join(dir.res.v, CONFIG_FILE_NAME)), disk |-> dir.disk]

get_config_path(env, disk, io_ok) ==
    IF env.xdg = None THEN [res |-> Err("Other"), disk |-> disk]
    ELSE ConfigFileIn(ensure_dir_exists(join(env.xdg.v, CONFIG_DIR_NAME),
                                        disk, io_ok))

\* str::replace("~", home)
RECURSIVE replace_tilde(_, _)
replace_tilde(text, home) ==
    IF text = <<>> THEN <<>>
    ELSE (IF Head(text) = "~" THEN home ELSE <<Head(text)>>)
         \o replace_tilde(Tail(text), home)

\* the paths of the model hold no % and no $: of the replacements only the
\* one of ~ can apply
expand_env_vars(path, env) ==
    IF "~" \in Elems(path) /\ env.home # None
    THEN replace_tilde(path, env.home.v)
    ELSE path

\* the text of a configuration file, and a text that is no JSON
ConfigText(music_path) == [json |-> TRUE, music_path |-> music_path]

Garbage == [json |-> FALSE]

\* load_config once read_to_string has returned the text
ParseConfig(text, env, disk) ==
    [config |-> IF text.json
                THEN [music_path |-> expand_env_vars(text.music_path, env)]
                ELSE DefaultConfig,
     disk |-> disk]

\* load_config once get_config_path has returned
ReadConfig(path, env, io_ok) ==
    IF ~path.res.ok THEN [config |-> DefaultConfig, disk |-> path.disk]
    ELSE IF Resolve(path.res.v) \notin DOMAIN path.disk.files \/ ~io_ok
         THEN [config |-> DefaultConfig,
               disk |-> Logged(path.disk, "read_to_string", path.res.v)]
    ELSE ParseConfig(path.disk.files[Resolve(path.res.v)], env,
                     Logged(path.disk, "read_to_string", path.res.v))

load_config(env, disk, io_ok) ==
    ReadConfig(get_config_path(env, disk, io_ok), env, io_ok)

\* save_config once get_config_path has returned
WriteConfig(path, config, io_ok) ==
    IF ~path.res.ok THEN path
    ELSE IF ~io_ok
         THEN [res |-> Err("Io"),
               disk |-> Logged(path.disk, "write", path.res.v)]
    ELSE [res |-> Ok(<<>>),
          disk |-> [Logged(path.disk, "write", path.res.v) EXCEPT
                       !.files = WithFile(@, Resolve(path.res.v),
                                          ConfigText(config.music_path))]]

save_config(config, env, disk, io_ok) ==
    WriteConfig(get_config_path(env, disk, io_ok), config, io_ok)

\* Path::is_dir: the empty path names nothing
is_dir(path, dirs) == path # <<>> /\ Resolve(path) \in dirs

\* the configuration file, once it is written
ConfigFile == join(join(ConfigHome, CONFIG_DIR_NAME), CONFIG_FILE_NAME)

\* args[1] where the program is given one: a directory, the empty string,
\* a path to nothing, and a path to what is a file once a launch has saved
Arguments ==
    {None} \cup { Some(path) : path \in { <<"/", "m">>, <<>>,
                                          <<"/", "g", "o", "n", "e">>,
                                          ConfigFile } }

\* a call of is_dir and what it returned
Probe(path, dirs) == [path |-> path, is_dir |-> is_dir(path, dirs)]

\* the program is started
Launch ==
    \E args \in Arguments :
       /\ main.pc \in {"none", "exited"}
       /\ launches < MaxLaunches
       /\ launches' = launches + 1
       /\ main' = [pc |-> "start", args |-> args, config |-> DefaultConfig,
                   probes |-> {}, log |-> <<>>, ui |-> None,
                   engine |-> FALSE, scan |-> None, result |-> "none"]
       /\ UNCHANGED <<engine_vars, lib_vars, disk_dirs, disk_files, store_call, app>>

\* (mutant) the argument is taken for a directory
TrustArgument ==
    /\ main.pc = "start"
    /\ main.args # None
    /\ main' = [main EXCEPT !.pc = "save",
                            !.config = [music_path |-> main.args.v]]
    /\ UNCHANGED <<engine_vars, lib_vars, disk_dirs, disk_files, store_call,
                   launches, app>>

\* if args.len() > 1 { if music_path.is_dir() { .. } else { .. } }
CheckArgument ==
    /\ main.pc = "start"
    /\ main.args # None
    /\ main' = [main EXCEPT
                   !.probes = @ \cup {Probe(main.args.v, disk_dirs)},
                   !.pc = IF is_dir(main.args.v, disk_dirs)
                          THEN "save" ELSE "prompt",
                   !.config = IF is_dir(main.args.v, disk_dirs)
                              THEN [music_path |-> main.args.v] ELSE @]
    /\ UNCHANGED <<engine_vars, lib_vars, disk_dirs, disk_files, store_call,
                   launches, app>>

\* config_service::save_config(&config)? has returned
Saved(out) ==
    /\ disk_dirs' = out.disk.dirs
    /\ disk_files' = out.disk.files
    /\ main' = [main EXCEPT !.log = @ \o out.disk.log,
                            !.pc = IF out.res.ok THEN "run" ELSE "exited",
                            !.result = IF out.res.ok THEN @ ELSE "Err"]

SaveConfig ==
    \E env \in MainEnvironments, io_ok \in BOOLEAN :
       /\ main.pc = "save"
       /\ Saved(save_config(main.config, env, TheDisk, io_ok))
       /\ UNCHANGED <<engine_vars, lib_vars, store_call, launches, app>>

\* load_config has returned; the two checks of the stored path follow
Loaded(out) ==
    /\ disk_dirs' = out.disk.dirs
    /\ disk_files' = out.disk.files
    /\ main' = [main EXCEPT
                   !.log = @ \o out.disk.log,
                   !.config = out.config,
                   !.probes = IF out.config.music_path = <<>> THEN @
                              ELSE @ \cup {Probe(out.config.music_path,
                                                 out.disk.dirs)},
                   !.pc = IF out.config.music_path = <<>> THEN "prompt"
                          ELSE IF ~is_dir(out.config.music_path, out.disk.dirs)
                               THEN "prompt"
                          ELSE "run"]

LoadStored ==
    \E env \in MainEnvironments, io_ok \in BOOLEAN :
       /\ main.pc = "start"
       /\ main.args = None
       /\ Loaded(load_config(env, TheDisk, io_ok))
       /\ UNCHANGED <<engine_vars, lib_vars, store_call, launches, app>>

\* ui_manager::run(&config): the terminal is set up, App::new starts the
\* engine and scan_directory scans config.music_path
RunUi ==
    \E terminal_ok \in BOOLEAN :
       /\ main.pc = "run"
       /\ main' = [main EXCEPT
                      !.ui = Some(main.config.music_path),
                      !.engine = terminal_ok,
                      !.scan = IF terminal_ok
                               THEN Some(main.config.music_path) ELSE None,
                      !.pc = IF terminal_ok THEN "ui" ELSE "exited",
                      !.result = IF terminal_ok THEN @ ELSE "Err"]
       /\ UNCHANGED <<engine_vars, lib_vars, disk_dirs, disk_files, store_call,
                      launches, app>>

\* the user leaves the UI and run returns
QuitUi ==
    /\ main.pc = "ui"
    /\ main' = [main EXCEPT !.pc = "exited", !.result = "Ok"]
    /\ UNCHANGED <<engine_vars, lib_vars, disk_dirs, disk_files, store_call,
                   launches, app>>

\* "Press Enter to exit...": read_line returns
PressEnter ==
    \E read_ok \in BOOLEAN :
       /\ main.pc = "prompt"
       /\ main' = [main EXCEPT !.pc = "exited",
                               !.result = IF read_ok THEN "Ok" ELSE "Err"]
       /\ UNCHANGED <<engine_vars, lib_vars, disk_dirs, disk_files, store_call,
                      launches, app>>

\* the user removes a music directory
RemoveMusicDir ==
    \E dir \in MusicDirs :
       /\ Resolve(dir) \in disk_dirs
       /\ disk_dirs' = disk_dirs \ {Resolve(dir)}
       /\ UNCHANGED <<engine_vars, lib_vars, disk_files, store_call, main,
                      launches, app>>

\* the user edits the configuration file by hand
EditConfig ==
    \E text \in { Garbage, ConfigText(<<>>), ConfigText(<<"~", "/", "m">>) } :
       /\ main.pc \in {"none", "exited"}
       /\ Resolve(ConfigFile) \in DOMAIN disk_files
       /\ disk_files' = WithFile(disk_files, Resolve(ConfigFile), text)
       /\ UNCHANGED <<engine_vars, lib_vars, disk_dirs, store_call, main,
                      launches, app>>

NextMain ==
    \/ Launch
    \/ CheckArgument
    \/ SaveConfig
    \/ LoadStored
    \/ RunUi
    \/ QuitUi
    \/ PressEnter
    \/ RemoveMusicDir
    \/ EditConfig

\* the program, started again and again on one disk
SpecMain == Init /\ [][NextMain]_vars

----------------------------------------------------------------------------
(* The terminal UI: ui_manager *)

\* a PathBuf as serde sees it
PathBuf(text) == [text |-> text, utf8 |-> TRUE]

\* the files below the music directory /m: the directory each is in, its
\* name, and which file of Paths it is for the engine
MusicFiles ==
    { [place |-> << <<"m">> >>, name |-> <<"a", ".", "m", "p", "3">>,
       file |-> "a.mp3"],
      [place |-> << <<"m">> >>, name |-> <<"x", ".", "M", "P", "3">>,
       file |-> "x.mp3"],
      [place |-> << <<"m">> >>, name |-> <<"n", ".", "t", "x", "t">>,
       file |-> "n.txt"] }

\* Path::exists and Path::is_file for a track
FileExists(track) ==
    \E f \in MusicFiles : Append(f.place, f.name) = Resolve(track.text)

\* the file a track path leads to
FileAt(track) ==
    (CHOOSE f \in MusicFiles : Append(f.place, f.name) = Resolve(track.text)).file

\* the tracks of a command, as the engine opens them
OnDisk(tracks) == [i \in DOMAIN tracks |-> FileAt(tracks[i])]

MaxOf(set) == CHOOSE n \in set : \A m \in set : m <= n

\* Path::extension of a file name
Extension(name) ==
    LET dots == { i \in DOMAIN name : name[i] = "." }
    IN  IF dots = {} \/ MaxOf(dots) = 1 THEN None
        ELSE Some(SubSeq(name, MaxOf(dots) + 1, Len(name)))

\* App::is_audio_file
app_is_audio_file(name) ==
    /\ Extension(name).some
    /\ to_lowercase(Extension(name).v) \in
          { <<"m", "p", "3">>, <<"f", "l", "a", "c">>, <<"o", "g", "g">>,
            <<"w", "a", "v">> }

\* the file name of a path
FileName(text) == Components(text)[Len(Components(text))]

DIR == <<"[", "D", "I", "R", "]", " ">>

DirUp == DIR \o <<".", ".">>

\* str::starts_with
starts_with(text, prefix) ==
    Len(text) >= Len(prefix) /\ SubSeq(text, 1, Len(prefix)) = prefix

\* str::contains
contains(text, pattern) ==
    \E i \in 0..(Len(text) - Len(pattern)) :
        SubSeq(text, i + 1, i + Len(pattern)) = pattern

\* the directories directly in a directory
ChildDirs(place) ==
    { d \in disk_dirs : Len(d) = Len(place) + 1 /\ SubSeq(d, 1, Len(place)) = place }

\* read_dir(current_dir), filtered and mapped to the texts shown, with
\* "[DIR] .." where the directory has a parent
ReadItems(dir) ==
    { DIR \o d[Len(d)] : d \in ChildDirs(Resolve(dir)) }
    \cup { f.name : f \in { g \in MusicFiles : g.place = Resolve(dir)
                                               /\ app_is_audio_file(g.name) } }
    \cup (IF Components(dir) # <<>> THEN {DirUp} ELSE {})

\* PathBuf::pop
pop(dir) ==
    IF Components(dir) = <<>> THEN dir
    ELSE IF Len(Components(dir)) = 1 THEN <<"/">>
    ELSE SubSeq(dir, 1, Len(dir) - Len(FileName(dir)) - 1)

\* the end of update_items and of update_filtered_items: a selection beyond
\* a list that is not empty goes back to the first line
Reselect(selected, list) ==
    IF selected >= Len(list) /\ list # <<>> THEN 0 ELSE selected

\* (mutant) the filter leaves the selection where it is
update_filtered_items_keeping(a) ==
    [a EXCEPT !.filtered_items =
                 IF a.search_query = <<>> THEN a.items
                 ELSE LET Match(item) == contains(to_lowercase(item),
                                                  to_lowercase(a.search_query))
                      IN  SelectSeq(a.items, Match)]

update_filtered_items(a) ==
    [a EXCEPT !.filtered_items =
                 IF a.search_query = <<>> THEN a.items
                 ELSE LET Match(item) == contains(to_lowercase(item),
                                                  to_lowercase(a.search_query))
                      IN  SelectSeq(a.items, Match),
              !.selected =
                 Reselect(a.selected,
                          IF a.search_query = <<>> THEN a.items
                          ELSE LET Match(item) == contains(to_lowercase(item),
                                                           to_lowercase(a.search_query))
                               IN  SelectSeq(a.items, Match))]

\* update_items once the directory is read and the items are sorted
Listed(a, items) ==
    update_filtered_items(
        [a EXCEPT !.items = items, !.selected = Reselect(a.selected, items)])

update_items(a) == Listed(a, Sorted(ReadItems(a.current_dir)))

\* XDG_CONFIG_HOME of the process the UI runs in
UiEnvironment == Some(ConfigHome)

\* the playlists an earlier run of the program has saved
EarlierPlaylists ==
    { [name |-> <<"m", "i", "x">>,
       tracks |-> << PathBuf(<<"/", "m", "/", "a", ".", "m", "p", "3">>),
                     PathBuf(<<"/", "m", "/", "x", ".", "M", "P", "3">>) >>],
      [name |-> <<"o", "l", "d">>,
       tracks |-> << PathBuf(<<"/", "m", "/", "g", "o", "n", "e", ".", "o", "g", "g">>) >>] }

\* an earlier run has saved one more playlist
EarlierSave ==
    \E playlist \in EarlierPlaylists :
       /\ app = NoApp
       /\ \A f \in DOMAIN disk_files : disk_files[f].name # playlist.name
       /\ disk_dirs' = save_playlist(playlist, UiEnvironment, TheDisk, TRUE).disk.dirs
       /\ disk_files' = save_playlist(playlist, UiEnvironment, TheDisk, TRUE).disk.files
       /\ UNCHANGED <<engine_vars, lib_vars, store_call, main, launches, app>>

\* the orders in which read_dir can yield the members of a set
Orders(set) ==
    { order \in [1..Cardinality(set) -> set] :
        \A i, j \in DOMAIN order : i # j => order[i] # order[j] }

\* the JSON files directly in a directory
JsonFilesIn(place, files) ==
    { f \in DOMAIN files :
        /\ Len(f) = Len(place) + 1
        /\ SubSeq(f, 1, Len(place)) = place
        /\ Extension(f[Len(f)]).some
        /\ eq_ignore_ascii_case(Extension(f[Len(f)]).v, <<"j", "s", "o", "n">>) }

\* load_playlists once playlists_dir has returned: the files that parse, in
\* the order read_dir yields them
PlaylistsFound(dir, order) ==
    IF ~dir.res.ok THEN <<>>
    ELSE [i \in DOMAIN order |-> from_str(dir.disk.files[order[i]]).v]

\* the fields of App that decide what a key does, as App::new sets them;
\* keys counts the key events handled and last_key is the last of them
NewApp(music_path, playlists) ==
    [status |-> "running",
     current_dir |-> music_path,
     items |-> <<>>,
     filtered_items |-> <<>>,
     selected |-> 0,
     marked_tracks |-> <<>>,
     playlist_name_input |-> <<>>,
     is_creating_playlist |-> FALSE,
     playlist_creation_selected |-> 0,
     is_deleting_playlist |-> FALSE,
     playlist_to_delete |-> None,
     playlists |-> playlists,
     is_playing |-> FALSE,
     is_paused |-> FALSE,
     active_tab |-> "FolderNavigation",
     playlist_selected |-> 0,
     playlist_track_selected |-> 0,
     viewing_playlist |-> None,
     is_searching |-> FALSE,
     search_query |-> <<>>,
     keys |-> 0,
     last_key |-> "none"]

\* App::new once playlists_dir has returned
Built(dir) ==
    /\ disk_dirs' = dir.disk.dirs
    /\ \E order \in Orders(IF dir.res.ok
                           THEN JsonFilesIn(Resolve(dir.res.v), dir.disk.files)
                           ELSE {}) :
          app' = update_items(NewApp(<<"/", "m">>, PlaylistsFound(dir, order)))

\* ui_manager::run up to App::run: App::new(&config.music_path)
AppNew ==
    /\ app = NoApp
    /\ \E io_ok \in BOOLEAN : Built(playlists_dir(UiEnvironment, TheDisk, io_ok))
    /\ UNCHANGED <<engine_vars, lib_vars, disk_files, store_call, main, launches>>

\* KeyCode: Up, Down, Enter, Esc and Backspace by name, Char(c) as c
NamedKeys == {"Up", "Down", "Enter", "Esc", "Backspace"}

IsChar(key) == key \notin NamedKeys

\* Vec::remove(index), index counted from 0
RemoveAt(list, index) ==
    [i \in 1..(Len(list) - 1) |-> IF i <= index THEN list[i] ELSE list[i + 1]]

\* String::pop
Popped(text) == IF text = <<>> THEN text ELSE SubSeq(text, 1, Len(text) - 1)

\* self.player.send(cmd); the Result is not looked at
PlayerSend(c) ==
    /\ submitted' = submitted + 1
    /\ cmd_queue' = IF worker # "Terminated"
                    THEN Append(cmd_queue, [id |-> submitted + 1, cmd |-> c])
                    ELSE cmd_queue
    /\ send_result' = IF worker # "Terminated" THEN "Ok" ELSE "Err"

\* handle_input returns with the App as given and nothing sent
Quiet(a, key) ==
    /\ app' = [a EXCEPT !.keys = app.keys + 1, !.last_key = key]
    /\ UNCHANGED <<cmd_queue, submitted, send_result, disk_dirs, disk_files>>

\* handle_input returns with the App as given and one command sent
Sending(a, key, c) ==
    /\ app' = [a EXCEPT !.keys = app.keys + 1, !.last_key = key]
    /\ PlayerSend(c)
    /\ UNCHANGED <<disk_dirs, disk_files>>

\* (mutant) a pause shown stays shown when the next tracks are played
PlayingKeepsPause(key, type, tracks) ==
    Sending([app EXCEPT !.is_playing = TRUE], key,
            [type |-> type, tracks |-> OnDisk(tracks)])

\* is_playing = true; is_paused = false; send(PlayAlbum | PlayShuffle)
Playing(key, type, tracks) ==
    Sending([app EXCEPT !.is_playing = TRUE, !.is_paused = FALSE], key,
            [type |-> type, tracks |-> OnDisk(tracks)])

\* an index out of bounds: the thread panics
Panics(key) == Quiet([app EXCEPT !.status = "panicked"], key)

\* a call into playlist_storage_service has returned: `?` passes its error
\* on and run returns it, otherwise the App is as given
Stored(a, key, out) ==
    /\ app' = IF out.res.ok
              THEN [a EXCEPT !.keys = app.keys + 1, !.last_key = key]
              ELSE [app EXCEPT !.status = "failed", !.keys = app.keys + 1,
                               !.last_key = key]
    /\ disk_dirs' = out.disk.dirs
    /\ disk_files' = out.disk.files
    /\ UNCHANGED <<cmd_queue, submitted, send_result>>

\* if self.is_deleting_playlist { ... return Ok(false) }
DeletingKey(key) ==
    IF key \in {"y", "Y"}
    THEN IF ~app.playlist_to_delete.some
         THEN Quiet([app EXCEPT !.is_deleting_playlist = FALSE], key)
         ELSE IF app.playlist_to_delete.v >= Len(app.playlists)
         THEN Panics(key)
         ELSE \E io_ok \in BOOLEAN :
                 Stored([app EXCEPT
                            !.playlists = RemoveAt(@, app.playlist_to_delete.v),
                            !.is_deleting_playlist = FALSE,
                            !.playlist_to_delete = None],
                        key,
                        delete_playlist(
                            app.playlists[app.playlist_to_delete.v + 1].name,
                            UiEnvironment, TheDisk, io_ok))
    ELSE IF key \in {"n", "N", "Esc"}
    THEN Quiet([app EXCEPT !.is_deleting_playlist = FALSE,
                           !.playlist_to_delete = None], key)
    ELSE Quiet(app, key)

\* if self.is_searching { ... return Ok(false) }
SearchingKey(key) ==
    IF IsChar(key)
    THEN Quiet(update_filtered_items(
                   [app EXCEPT !.search_query = Append(@, key)]), key)
    ELSE IF key = "Backspace"
    THEN Quiet(update_filtered_items(
                   [app EXCEPT !.search_query = Popped(@)]), key)
    ELSE IF key = "Enter"
    THEN Quiet([app EXCEPT !.is_searching = FALSE], key)
    ELSE IF key = "Esc"
    THEN Quiet(update_filtered_items(
                   [app EXCEPT !.is_searching = FALSE, !.search_query = <<>>]),
               key)
    ELSE Quiet(app, key)

\* the fields Enter resets in the creation popup
Closed(a) ==
    [a EXCEPT !.is_creating_playlist = FALSE, !.playlist_name_input = <<>>,
              !.marked_tracks = <<>>, !.playlist_creation_selected = 0]

\* if self.is_creating_playlist { ... }
CreatingKey(key) ==
    IF key = "Up"
    THEN Quiet([app EXCEPT !.playlist_creation_selected =
                              IF @ > 0 THEN @ - 1 ELSE @], key)
    ELSE IF key = "Down"
    THEN Quiet([app EXCEPT !.playlist_creation_selected =
                              IF @ < Len(app.playlists) THEN @ + 1 ELSE @], key)
    ELSE IF key = "Enter"
    THEN IF app.playlist_creation_selected = Len(app.playlists)
         THEN \E io_ok \in BOOLEAN :
                 Stored(Closed([app EXCEPT !.playlists =
                            Append(@, [name |-> app.playlist_name_input,
                                       tracks |-> app.marked_tracks])]),
                        key,
                        save_playlist([name |-> app.playlist_name_input,
                                       tracks |-> app.marked_tracks],
                                      UiEnvironment, TheDisk, io_ok))
         ELSE IF app.playlist_creation_selected > Len(app.playlists)
         THEN Panics(key)
         ELSE \E io_ok \in BOOLEAN :
                 Stored(Closed([app EXCEPT
                            !.playlists[app.playlist_creation_selected + 1].tracks =
                                @ \o app.marked_tracks]),
                        key,
                        save_playlist(
                            [app.playlists[app.playlist_creation_selected + 1]
                                EXCEPT !.tracks = @ \o app.marked_tracks],
                            UiEnvironment, TheDisk, io_ok))
    ELSE IF IsChar(key)
    THEN Quiet([app EXCEPT !.playlist_name_input =
                   IF app.playlist_creation_selected = Len(app.playlists)
                   THEN Append(@, key) ELSE @], key)
    ELSE IF key = "Backspace"
    THEN Quiet([app EXCEPT !.playlist_name_input =
                   IF app.playlist_creation_selected = Len(app.playlists)
                   THEN Popped(@) ELSE @], key)
    ELSE IF key = "Esc"
    THEN Quiet([app EXCEPT !.is_creating_playlist = FALSE,
                           !.playlist_name_input = <<>>,
                           !.playlist_creation_selected = 0], key)
    ELSE Quiet(app, key)

\* a path below dir: dir joined with each of the names in turn
RECURSIVE PathUnder(_, _)
PathUnder(dir, names) ==
    IF names = <<>> THEN dir
    ELSE PathUnder(join(dir, Head(names)), Tail(names))

\* read_dir(current_dir): the audio files directly in it
FilesIn(dir) ==
    { PathBuf(join(dir, f.name)) :
        f \in { g \in MusicFiles : g.place = Resolve(dir)
                                   /\ app_is_audio_file(g.name) } }

\* WalkDir::new(current_dir): the audio files in it and below it
FilesBelow(dir) ==
    { PathBuf(PathUnder(dir, SubSeq(Append(f.place, f.name),
                                    Len(Resolve(dir)) + 1, Len(f.place) + 1))) :
        f \in { g \in MusicFiles :
                  /\ Len(g.place) >= Len(Resolve(dir))
                  /\ SubSeq(g.place, 1, Len(Resolve(dir))) = Resolve(dir)
                  /\ app_is_audio_file(g.name) } }

\* track.exists() && Self::is_audio_file(track)
ValidTrack(track) ==
    FileExists(track) /\ app_is_audio_file(FileName(track.text))

\* the orders a list can be shuffled into
Shuffled(list) ==
    { [i \in DOMAIN list |-> list[order[i]]] : order \in Orders(DOMAIN list) }

\* the position of a track in marked_tracks, 0 if it is not marked
Position(marked, track) ==
    IF \E i \in DOMAIN marked : marked[i] = track
    THEN CHOOSE i \in DOMAIN marked :
            marked[i] = track /\ \A j \in 1..(i - 1) : marked[j] # track
    ELSE 0

\* the mark of a track is taken away if it has one and set if it has none
Toggle(marked, track) ==
    IF Position(marked, track) > 0
    THEN RemoveAt(marked, Position(marked, track) - 1)
    ELSE Append(marked, track)

\* the step of Up and of Down in a list of the given length
StepUp(selected, length) ==
    IF selected > 0 THEN selected - 1
    ELSE IF length > 0 THEN length - 1 ELSE selected

StepDown(selected, length) ==
    IF selected < (IF length > 0 THEN length - 1 ELSE 0) THEN selected + 1 ELSE 0

\* the playlist at an index counted from 0
PlaylistAt(index) == app.playlists[index + 1]

\* KeyCode::Up and KeyCode::Down outside the popups
KeyUpDown(key) ==
    IF app.active_tab = "FolderNavigation"
    THEN Quiet([app EXCEPT !.selected =
                   IF key = "Up" THEN StepUp(@, Len(app.filtered_items))
                   ELSE StepDown(@, Len(app.filtered_items))], key)
    ELSE IF app.active_tab # "PlaylistNavigation" THEN Quiet(app, key)
    ELSE IF ~app.viewing_playlist.some
    THEN Quiet([app EXCEPT !.playlist_selected =
                   IF key = "Up" THEN StepUp(@, Len(app.playlists))
                   ELSE StepDown(@, Len(app.playlists))], key)
    ELSE IF app.viewing_playlist.v >= Len(app.playlists) THEN Panics(key)
    ELSE Quiet([app EXCEPT !.playlist_track_selected =
                   IF key = "Up"
                   THEN StepUp(@, Len(PlaylistAt(app.viewing_playlist.v).tracks))
                   ELSE StepDown(@, Len(PlaylistAt(app.viewing_playlist.v).tracks))],
               key)

\* Enter on a line of the folder tab
EnterItem(key, item) ==
    IF item = DirUp
    THEN IF Components(app.current_dir) = <<>> THEN Quiet(app, key)
         ELSE Quiet(update_items([app EXCEPT !.current_dir = pop(@),
                                             !.selected = 0,
                                             !.search_query = <<>>,
                                             !.is_searching = FALSE]), key)
    ELSE IF starts_with(item, DIR)
    THEN IF ~is_dir(join(app.current_dir, SubSeq(item, 7, Len(item))), disk_dirs)
         THEN Quiet(app, key)
         ELSE Quiet(update_items(
                        [app EXCEPT !.current_dir =
                                       join(@, SubSeq(item, 7, Len(item))),
                                    !.selected = 0,
                                    !.search_query = <<>>,
                                    !.is_searching = FALSE]), key)
    ELSE IF app_is_audio_file(item)
    THEN Playing(key, "PlayAlbum", << PathBuf(join(app.current_dir, item)) >>)
    ELSE Quiet(app, key)

\* Enter in the playlist tab
EnterPlaylist(key) ==
    IF app.viewing_playlist.some
    THEN IF app.viewing_playlist.v >= Len(app.playlists) THEN Panics(key)
         ELSE IF /\ app.playlist_track_selected
                       < Len(PlaylistAt(app.viewing_playlist.v).tracks)
                 /\ ValidTrack(PlaylistAt(app.viewing_playlist.v)
                                  .tracks[app.playlist_track_selected + 1])
         THEN Playing(key, "PlayAlbum",
                      << PlaylistAt(app.viewing_playlist.v)
                            .tracks[app.playlist_track_selected + 1] >>)
         ELSE Quiet(app, key)
    ELSE IF app.playlists # <<>>
    THEN Quiet([app EXCEPT !.viewing_playlist = Some(app.playlist_selected),
                           !.playlist_track_selected = 0], key)
    ELSE Quiet(app, key)

\* KeyCode::Enter outside the popups
KeyEnter(key) ==
    IF app.filtered_items = <<>> THEN Quiet(app, key)
    ELSE IF app.active_tab = "FolderNavigation"
    THEN IF app.selected >= Len(app.filtered_items) THEN Panics(key)
         ELSE EnterItem(key, app.filtered_items[app.selected + 1])
    ELSE IF app.active_tab = "PlaylistNavigation" THEN EnterPlaylist(key)
    ELSE Quiet(app, key)

\* KeyCode::Esc outside the popups
KeyEsc(key) ==
    IF app.active_tab = "FolderNavigation"
    THEN IF Components(app.current_dir) = <<>> THEN Quiet(app, key)
         ELSE Quiet(update_items([app EXCEPT !.current_dir = pop(@),
                                             !.selected = 0]), key)
    ELSE IF app.active_tab = "PlaylistNavigation" /\ app.viewing_playlist.some
    THEN Quiet([app EXCEPT !.viewing_playlist = None,
                           !.playlist_track_selected = 0], key)
    ELSE Quiet(app, key)

\* KeyCode::Char('l') | KeyCode::Char('L')
KeyL(key) ==
    IF app.active_tab # "FolderNavigation" \/ app.items = <<>>
    THEN Quiet(app, key)
    ELSE IF app.selected >= Len(app.items) THEN Panics(key)
    ELSE IF starts_with(app.items[app.selected + 1], SubSeq(DIR, 1, 5))
    THEN Quiet(app, key)
    ELSE Quiet([app EXCEPT !.marked_tracks =
                   Toggle(@, PathBuf(join(app.current_dir,
                                          app.items[app.selected + 1])))],
               key)

\* the playlist that P and S take in the playlist tab once the index is
\* known: its valid tracks, in order or shuffled
PlayFrom(key, type, index) ==
    IF index >= Len(app.playlists) THEN Panics(key)
    ELSE IF SelectSeq(PlaylistAt(index).tracks, ValidTrack) = <<>>
    THEN Quiet(app, key)
    ELSE IF type = "PlayAlbum"
    THEN Playing(key, type, SelectSeq(PlaylistAt(index).tracks, ValidTrack))
    ELSE \E tracks \in Shuffled(SelectSeq(PlaylistAt(index).tracks, ValidTrack)) :
            Playing(key, type, tracks)

\* KeyCode::Char('p') and KeyCode::Char('s'), by the command they send
KeyPlay(key, type) ==
    IF app.active_tab = "FolderNavigation"
    THEN IF type = "PlayAlbum"
         THEN IF FilesIn(app.current_dir) = {} THEN Quiet(app, key)
              ELSE \E tracks \in Orders(FilesIn(app.current_dir)) :
                      Playing(key, type, tracks)
         ELSE IF FilesBelow(app.current_dir) = {} THEN Quiet(app, key)
              ELSE \E tracks \in Orders(FilesBelow(app.current_dir)) :
                      Playing(key, type, tracks)
    ELSE IF app.active_tab # "PlaylistNavigation" THEN Quiet(app, key)
    ELSE IF app.viewing_playlist.some
    THEN PlayFrom(key, type, app.viewing_playlist.v)
    ELSE IF app.playlists # <<>>
    THEN PlayFrom(key, type, app.playlist_selected)
    ELSE Quiet(app, key)

\* the first three branches of handle_input
ModalKey(key) ==
    IF app.is_deleting_playlist THEN DeletingKey(key)
    ELSE IF app.is_searching THEN SearchingKey(key)
    ELSE CreatingKey(key)

\* the match of the last else branch of handle_input
PlainKey(key) ==
    IF key = "1" THEN Quiet([app EXCEPT !.active_tab = "FolderNavigation"], key)
    ELSE IF key = "2"
    THEN Quiet([app EXCEPT !.active_tab = "PlaylistNavigation"], key)
    ELSE IF key = "3" THEN Quiet([app EXCEPT !.active_tab = "Stats"], key)
    ELSE IF key \in {"q", "Q"} THEN Quiet([app EXCEPT !.status = "quit"], key)
    ELSE IF key \in {"Up", "Down"} THEN KeyUpDown(key)
    ELSE IF key \in {"b", "B"}
    THEN IF app.active_tab = "FolderNavigation"
         THEN Quiet([app EXCEPT !.is_searching = TRUE, !.search_query = <<>>],
                    key)
         ELSE Quiet(app, key)
    ELSE IF key \in {"c", "C"}
    THEN Quiet([app EXCEPT !.is_creating_playlist = TRUE], key)
    ELSE IF key \in {"d", "D"}
    THEN IF /\ app.active_tab = "PlaylistNavigation"
            /\ ~app.viewing_playlist.some
            /\ app.playlists # <<>>
         THEN Quiet([app EXCEPT !.is_deleting_playlist = TRUE,
                                !.playlist_to_delete = Some(app.playlist_selected)],
                    key)
         ELSE Quiet(app, key)
    ELSE IF key = "Enter" THEN KeyEnter(key)
    ELSE IF key = "Esc" THEN KeyEsc(key)
    ELSE IF key \in {"l", "L"} THEN KeyL(key)
    ELSE IF key \in {"p", "P"} THEN KeyPlay(key, "PlayAlbum")
    ELSE IF key \in {"s", "S"} THEN KeyPlay(key, "PlayShuffle")
    ELSE IF key \in {"n", "N"} THEN Sending(app, key, Cmd("SkipNext"))
    ELSE IF key = " "
    THEN IF app.is_playing
         THEN Sending([app EXCEPT !.is_paused = ~@], key, Cmd("TogglePause"))
         ELSE Quiet(app, key)
    ELSE IF key \in {"z", "Z"} THEN Sending(app, key, Cmd("VolumeDown"))
    ELSE IF key \in {"x", "X"} THEN Sending(app, key, Cmd("VolumeUp"))
    ELSE IF key = "Backspace"
    THEN Sending([app EXCEPT !.is_playing = FALSE, !.is_paused = FALSE], key,
                 Cmd("Stop"))
    ELSE Quiet(app, key)

handle_input(key) ==
    IF app.is_deleting_playlist \/ app.is_searching \/ app.is_creating_playlist
    THEN ModalKey(key)
    ELSE PlainKey(key)

\* self.ui(f) indexes playlists with viewing_playlist in the playlist tab
\* and with playlist_to_delete in the confirmation popup
DrawPanics ==
    \/ /\ app.active_tab = "PlaylistNavigation"
       /\ app.viewing_playlist.some
       /\ app.viewing_playlist.v >= Len(app.playlists)
    \/ /\ app.is_deleting_playlist
       /\ app.playlist_to_delete.some
       /\ app.playlist_to_delete.v >= Len(app.playlists)

\* (mutant) of the statuses waiting the first one is shown
DrainedOldest ==
    /\ ui_volume' = IF status_queue = <<>> THEN ui_volume ELSE status_queue[1]
    /\ status_queue' = <<>>

\* while let Ok(status) = self.player.receiver.try_recv() { volume = vol }
Drained ==
    /\ ui_volume' = IF status_queue = <<>> THEN ui_volume
                    ELSE status_queue[Len(status_queue)]
    /\ status_queue' = <<>>

\* one turn of the loop of App::run with a key event that is processed: the
\* screen is drawn, the status channel is emptied, the key is handled
KeyEvent(key) ==
    /\ app.status = "running"
    /\ IF DrawPanics
       THEN /\ app' = [app EXCEPT !.status = "panicked"]
            /\ UNCHANGED <<cmd_queue, submitted, send_result, disk_dirs,
                           disk_files, ui_volume, status_queue>>
       ELSE Drained /\ handle_input(key)
    /\ UNCHANGED <<worker, pc, device, sink, current_volume, load, handled,
                   last, status_sends, status_rx, sink_created, sender,
                   lib_vars, store_call, main, launches>>

\* one turn of the loop without a key event, or with one that comes within
\* 100 ms of the last
Refresh ==
    /\ app.status = "running"
    /\ status_queue # <<>> \/ DrawPanics
    /\ IF DrawPanics
       THEN /\ app' = [app EXCEPT !.status = "panicked"]
            /\ UNCHANGED <<ui_volume, status_queue>>
       ELSE Drained /\ app' = app
    /\ UNCHANGED <<worker, pc, device, cmd_queue, sink, current_volume, load,
                   submitted, send_result, handled, last, status_sends,
                   status_rx, sink_created, sender, lib_vars, disk_dirs,
                   disk_files, store_call, main, launches>>

\* the keys of the playback: the lines of the two lists, play, shuffle,
\* skip, pause and stop
PlayKeys == {"Down", "Enter", "p", "s", "n", " ", "Backspace", "2"}

PressPlayKey ==
    \E key \in PlayKeys :
       /\ app.status = "running"
       /\ app.keys < MaxPlayKeys
       /\ KeyEvent(key)

NextPlay ==
    \/ EarlierSave
    \/ AppNew
    \/ PressPlayKey
    \/ StartOk
    \/ StartFail
    \/ HandlePlayAlbum
    \/ HandlePlayShuffle
    \/ FinishLoad
    \/ HandleTogglePause
    \/ HandleStop
    \/ HandleSkipNext

\* the UI and the engine it drives, for the keys of the playback
SpecPlay == Init /\ [][NextPlay]_vars

\* the keys of the volume
VolumeKeys == {"z", "x"}

PressVolumeKey ==
    \E key \in VolumeKeys :
       /\ app.status = "running"
       /\ app.keys < MaxVolumeKeys
       /\ KeyEvent(key)

NextVolume ==
    \/ AppNew
    \/ PressVolumeKey
    \/ Refresh
    \/ StartOk
    \/ StartFail
    \/ HandleVolumeUp
    \/ HandleVolumeDown

\* the UI and the engine it drives, for the keys of the volume
SpecVolume == Init /\ [][NextVolume]_vars

\* the keys of the playlist tab: the tab, the lines, open, play, delete and
\* the answers to the confirmation
ListKeys == {"2", "Up", "Down", "Enter", "p", "d", "y", "n"}

PressListKey ==
    \E key \in ListKeys :
       /\ app.status = "running"
       /\ app.keys < MaxKeys
       /\ KeyEvent(key)

NextLists ==
    \/ EarlierSave
    \/ AppNew
    \/ PressListKey
    \/ Refresh

\* the UI on the playlists earlier runs have saved
SpecLists == Init /\ [][NextLists]_vars

\* the keys of the folder tab: the lines, open, back, search with the
\* letters typed into it, and mark
FolderKeys == {"Up", "Down", "Enter", "Esc", "Backspace", "b", "m", "x", "l"}

PressFolderKey ==
    \E key \in FolderKeys :
       /\ app.status = "running"
       /\ app.keys < MaxKeys
       /\ KeyEvent(key)

NextFolder ==
    \/ AppNew
    \/ PressFolderKey

\* the UI on the music directory
SpecFolder == Init /\ [][NextFolder]_vars

\* the keys of the three popups: search, create and delete with their
\* answers, and the keys that quit or drive the player outside them
ModeKeys == {"b", "c", "d", "2", "Enter", "Esc", "q", "y", "n", "Backspace"}

PressModeKey ==
    \E key \in ModeKeys :
       /\ app.status = "running"
       /\ app.keys < MaxModeKeys
       /\ KeyEvent(key)

NextModes ==
    \/ EarlierSave
    \/ AppNew
    \/ PressModeKey

\* the UI in and out of its popups
SpecModes == Init /\ [][NextModes]_vars

----------------------------------------------------------------------------
(* Properties of the playback engine *)

PlayTypes == {"PlaySong", "PlayAlbum", "PlayShuffle"}

LoadTypes == {"PlayAlbum", "PlayShuffle"}

VolumeTypes == {"SetVolume", "VolumeUp", "VolumeDown"}

\* the file can be opened and one of the two decoders accepts it
CanOpenAndDecode(p) == FileOpens(p) /\ (DecodesDefault(p) \/ DecodesSmallBuf(p))

\* the sinks that exist: the worker's slot and the one play_tracks is filling
LiveSinks == (IF sink.live THEN 1 ELSE 0) + (IF load.active THEN 1 ELSE 0)

InRange(v) == ~v.nan /\ 0 <= v.n /\ v.n <= 2 * One

\* C1: the commands are taken from the channel exactly once each and in the
\* order of submission; while the worker runs, every submitted command is
\* either taken or still queued, in order, none skipped; and while a
\* PlayAlbum/PlayShuffle load is in progress that command is the last one
\* taken, the commands submitted since it started are all still queued,
\* and nothing but the load has touched the engine.
C1_InSubmissionOrder ==
    /\ handled = [i \in 1..Len(handled) |-> i]
    /\ worker = "Starting" => handled = <<>>
    /\ worker = "Running" =>
          /\ Len(handled) + Len(cmd_queue) = submitted
          /\ \A i \in 1..Len(cmd_queue) : cmd_queue[i].id = Len(handled) + i
    /\ pc = "load" =>
          /\ last.cmd.type \in LoadTypes
          /\ handled[Len(handled)] = last.id
          /\ Len(cmd_queue) >= load.waiting
          /\ sink = NoSink
          /\ current_volume = last.volume
          /\ status_sends = last.status_sends

\* a load is in progress and a command submitted during it waits in the queue
C1_Witness ==
    /\ pc = "load"
    /\ last.sink.live
    /\ Len(cmd_queue) > load.waiting
    /\ cmd_queue[Len(cmd_queue)].cmd.type = "TogglePause"

\* C2: at most one sink exists at any time; when PlayAlbum/PlayShuffle has
\* created its new sink the previous one is already released; and after a
\* PlaySong whose file cannot be decoded the previous sink is gone as well.
C2_AtMostOneSink ==
    /\ LiveSinks <= 1
    /\ pc = "load" => load.active /\ sink = NoSink
    /\ pc = "recv" => ~load.active
    /\ (last.cmd.type = "PlaySong" /\ ~CanOpenAndDecode(last.cmd.path)) => sink = NoSink
    /\ (last.cmd.type = "PlaySong" /\ sink.live) =>
          sink = SinkAppend(NewSink(current_volume), last.cmd.path)

\* a load has created its new sink while a sink was live before it
C2_Witness ==
    /\ pc = "load"
    /\ load.active
    /\ last.cmd.type = "PlayAlbum"
    /\ last.sink.live
    /\ last.sink.queue # <<>>

\* C3: the step that takes Quit releases the sink and the device and
\* terminates the worker; once the worker is terminated it stays so, nothing
\* is taken from the channel, the engine's volume, sink and paused flag keep
\* their values and no status is sent or queued.
C3_QuitIsFinal ==
    [][ /\ last'.cmd.type = "Quit" =>
              /\ worker' = "Terminated"
              /\ sink' = NoSink
              /\ device' = "released"
              /\ cmd_queue' = <<>>
        /\ worker = "Terminated" =>
              /\ UNCHANGED <<worker, pc, device, sink, current_volume, load,
                             handled, last, status_sends>>
              /\ cmd_queue' = <<>>
              /\ Len(status_queue') <= Len(status_queue)
      ]_vars

\* Quit found a live sink, and a command submitted after it was refused
C3_Witness ==
    /\ last.cmd.type = "Quit"
    /\ last.sink.live
    /\ worker = "Terminated"
    /\ submitted > Len(handled)
    /\ send_result = "Err"

\* C4: when the output device cannot be acquired the worker is terminated
\* without having taken any command, created any sink or sent any status,
\* and send still returns, with Ok or Err.
C4_NoDeviceNoWork ==
    device = "failed" =>
        /\ worker = "Terminated"
        /\ handled = <<>>
        /\ last = NoLast
        /\ cmd_queue = <<>>
        /\ sink = NoSink
        /\ ~load.active
        /\ current_volume = InitialVolume
        /\ status_sends = 0
        /\ status_queue = <<>>
        /\ send_result \in {"None", "Ok", "Err"}
        /\ submitted < MaxCmds => ENABLED Submit

\* the device failed, commands were submitted and the last send returned Err
C4_Witness ==
    /\ device = "failed"
    /\ submitted >= 2
    /\ send_result = "Err"

\* C5: the engine's volume and every volume status lie in [0.0, 2.0].
C5_VolumeInRange ==
    /\ InRange(current_volume)
    /\ \A i \in 1..Len(status_queue) : InRange(status_queue[i])

\* the step takes a command of one of the types ts from the channel
Takes(ts) == handled' # handled /\ Current.type \in ts

\* C6: a step that takes SetVolume, VolumeUp or VolumeDown sends exactly one
\* status, appended behind the statuses already queued and carrying the new
\* engine volume, with or without a live sink; no other step sends a status.
C6_OneStatusPerVolumeCommand ==
    [][ IF Takes(VolumeTypes)
        THEN /\ status_sends' = status_sends + 1
             /\ status_queue' = Append(status_queue, current_volume')
        ELSE /\ status_sends' = status_sends
             /\ status_queue' \in {status_queue, <<>>}
             /\ current_volume' = current_volume
      ]_vars

\* two volume commands were handled with no sink, their statuses are queued
\* in that order
C6_Witness ==
    /\ last.cmd.type = "VolumeDown"
    /\ last.prev.type = "SetVolume"
    /\ ~last.sink.live
    /\ Len(status_queue) = 2
    /\ status_queue[1] = last.volume
    /\ status_queue[2] = current_volume
    /\ status_queue[1] # status_queue[2]

\* C7: a live sink, and the sink play_tracks is filling, has the engine's
\* current volume.
C7_SinkAtCurrentVolume ==
    /\ sink.live => sink.volume = current_volume
    /\ load.active => load.new_sink.volume = current_volume

\* a sink was created after SetVolume(3.0) was handled with no sink loaded
C7_Witness ==
    /\ last.cmd.type \in PlayTypes
    /\ last.prev.type = "SetVolume"
    /\ ~last.sink.live
    /\ sink.live
    /\ sink.volume = MaxVolume

\* C8: once PlayAlbum(paths) has completed, the new sink's queue is the
\* subsequence of paths that can be opened and decoded, in the order of
\* paths; the worker is running and takes the next command.
C8_AlbumSkipsFailingFiles ==
    (last.cmd.type = "PlayAlbum" /\ pc = "recv") =>
        /\ sink.live => sink.queue = SelectSeq(last.cmd.tracks, CanOpenAndDecode)
        /\ worker = "Running"
        /\ cmd_queue # <<>> => ENABLED Handle

\* the album with a corrupt second file was loaded: first and third queued
C8_Witness ==
    /\ last.cmd.type = "PlayAlbum"
    /\ last.cmd.tracks = <<"a.mp3", "x.mp3", "b.flac">>
    /\ pc = "recv"
    /\ sink.live
    /\ sink.queue = <<"a.mp3", "b.flac">>
    /\ cmd_queue # <<>>

\* C9: TogglePause changes neither the volume nor the status count; with no
\* sink it leaves no sink, with a sink it flips the paused flag of that sink
\* and nothing else; a second TogglePause right after restores the sink, and
\* after Stop it finds and leaves the engine empty.
C9_TogglePause ==
    last.cmd.type = "TogglePause" =>
        /\ current_volume = last.volume
        /\ status_sends = last.status_sends
        /\ worker = "Running"
        /\ IF last.sink.live
           THEN sink = [last.sink EXCEPT !.paused = ~last.sink.paused]
           ELSE sink = NoSink
        /\ last.prev.type = "TogglePause" => sink = last.prev.sink
        /\ last.prev.type = "Stop" => sink = NoSink

\* two TogglePause in a row on a playing sink: it plays again
C9_Witness ==
    /\ last.cmd.type = "TogglePause"
    /\ last.prev.type = "TogglePause"
    /\ last.sink.live
    /\ last.sink.paused
    /\ sink.live
    /\ ~sink.paused

\* C10: after Stop there is no live sink, whatever there was before; the
\* volume and the status count are those before Stop and the worker runs.
C10_StopEmpties ==
    last.cmd.type = "Stop" =>
        /\ sink = NoSink
        /\ ~load.active
        /\ current_volume = last.volume
        /\ status_sends = last.status_sends
        /\ worker = "Running"
        /\ pc = "recv"

\* Stop was handled while a paused sink was live
C10_Witness ==
    /\ last.cmd.type = "Stop"
    /\ last.sink.live
    /\ last.sink.paused
    /\ sink = NoSink

\* the number of times p occurs in the sequence q
Count(q, p) == Cardinality({ i \in 1..Len(q) : q[i] = p })

\* C11: SkipNext changes neither the volume nor the status count; with no
\* sink it leaves no sink; with a sink it removes the first queued track
\* (none from an empty queue) and leaves the sink live with its paused flag,
\* its volume and the rest of its queue.
C11_SkipNext ==
    last.cmd.type = "SkipNext" =>
        /\ current_volume = last.volume
        /\ status_sends = last.status_sends
        /\ worker = "Running"
        /\ IF ~last.sink.live THEN sink = NoSink
           ELSE /\ sink.live
                /\ sink.paused = last.sink.paused
                /\ sink.volume = last.sink.volume
                /\ sink.queue = IF last.sink.queue = <<>> THEN <<>>
                                ELSE SubSeq(last.sink.queue, 2, Len(last.sink.queue))

\* SkipNext found a paused sink with two tracks queued and left the second
C11_Witness ==
    /\ last.cmd.type = "SkipNext"
    /\ last.sink.live
    /\ last.sink.paused
    /\ last.sink.queue = <<"a.mp3", "b.flac">>
    /\ sink.queue = <<"b.flac">>

\* C12: while PlayShuffle loads, the previous sink is released and the list
\* being loaded holds every path of the command as often as the command
\* does; once it has completed, the new sink holds every decodable path of
\* the command as often as the command does and no other, plays, and is at
\* the current volume.
C12_ShuffleIsPermutation ==
    last.cmd.type = "PlayShuffle" =>
        /\ pc = "load" =>
              /\ sink = NoSink
              /\ Len(load.tracks) = Len(last.cmd.tracks)
              /\ \A p \in Paths : Count(load.tracks, p) = Count(last.cmd.tracks, p)
        /\ pc = "recv" =>
              /\ sink.live <=> sink_created = "ok"
              /\ sink.live =>
                    /\ \A p \in Paths :
                          Count(sink.queue, p) =
                             IF CanOpenAndDecode(p) THEN Count(last.cmd.tracks, p) ELSE 0
                    /\ ~sink.paused
                    /\ sink.volume = current_volume
        /\ current_volume = last.volume
        /\ worker = "Running"

\* a shuffle that changed the order: b.flac is queued before a.mp3
C12_Witness ==
    /\ last.cmd.type = "PlayShuffle"
    /\ last.cmd.tracks = <<"a.mp3", "x.mp3", "b.flac">>
    /\ last.sink.live
    /\ pc = "recv"
    /\ sink.live
    /\ sink.queue = <<"b.flac", "a.mp3">>

\* C13: PlaySong calls the decoder at most twice; it leaves a new sink
\* holding the track, at the current volume, when one of the two attempts
\* succeeds (and the sink could be created), and no sink at all otherwise;
\* the volume and the status count are unchanged and the worker runs on and
\* takes the next command.
C13_PlaySongFallback ==
    last.cmd.type = "PlaySong" =>
        /\ DecodeAttempts(last.cmd.path) <= 2
        /\ sink_created = "none" <=> ~CanOpenAndDecode(last.cmd.path)
        /\ sink = IF CanOpenAndDecode(last.cmd.path) /\ sink_created = "ok"
                  THEN [live |-> TRUE, queue |-> <<last.cmd.path>>,
                        paused |-> FALSE, volume |-> last.volume]
                  ELSE NoSink
        /\ current_volume = last.volume
        /\ status_sends = last.status_sends
        /\ worker = "Running"
        /\ pc = "recv"
        /\ cmd_queue # <<>> => ENABLED Handle

\* the file decoded at the second attempt only and replaced a live sink
C13_Witness ==
    /\ last.cmd.type = "PlaySong"
    /\ last.cmd.path = "b.flac"
    /\ last.sink.live
    /\ sink.live
    /\ sink.queue = <<"b.flac">>

\* the volume a volume command of the given record asks for
RequestedVolume(taken) ==
    CASE taken.cmd.type = "SetVolume" -> SetVolumeTarget(taken.cmd.volume)
      [] taken.cmd.type = "VolumeUp" -> VolumeUpTarget(taken.volume)
      [] taken.cmd.type = "VolumeDown" -> VolumeDownTarget(taken.volume)

\* C14: with or without the status Receiver, a volume command stores the
\* requested volume in the engine and in the live sink and counts one send;
\* the worker keeps running, and whenever a command is queued and the worker
\* is at recv it can take it; nothing is queued on a channel without
\* Receiver.
C14_VolumeWithoutListener ==
    /\ last.cmd.type \in VolumeTypes =>
          /\ current_volume = RequestedVolume(last)
          /\ sink = VolumeApplied(last.sink, RequestedVolume(last))
          /\ status_sends = last.status_sends + 1
          /\ worker = "Running"
          /\ pc = "recv"
    /\ (worker = "Running" /\ pc = "recv" /\ cmd_queue # <<>>) => ENABLED Handle
    /\ ~status_rx => status_queue = <<>>

\* VolumeDown was handled after the Receiver was gone, on a live sink, and
\* was the last of three commands
C14_Witness ==
    /\ last.cmd.type = "VolumeDown"
    /\ ~last.status_rx
    /\ last.sink.live
    /\ sink.volume # last.sink.volume
    /\ sink.volume = current_volume
    /\ last.prev.type = "SetVolume"
    /\ Len(handled) = 3

----------------------------------------------------------------------------
(* Properties of the library index *)

\* an item of the walk that scan_directory turns into a track
IsAudioEntry(item) == item.kind = "file" /\ is_audio_file(item.path)

LastItem == visited[Len(visited)]

\* offsets of the tracks that carry a genre tag, and of those with an artist
Tagged == { i \in DOMAIN lib_tracks : lib_tracks[i].genre.some }

Credited == { i \in DOMAIN lib_tracks : lib_tracks[i].artist.some }

Norm(i) == normalize_genre(lib_tracks[i].genre.v)

\* the keys of the groups that hold the track at position i (offset i - 1)
GroupsOf(map, i) == { k \in DOMAIN map : \E j \in DOMAIN map[k] : map[k][j] = i - 1 }

SameGroup(i, j) == GroupsOf(genres, i) \cap GroupsOf(genres, j) # {}

\* a finished scan that found a track tagged "Rock" and a track without genre
RockAndUntagged ==
    /\ ~scanning
    /\ scan_result = "Ok"
    /\ Len(lib_tracks) = 2
    /\ \E i, j \in DOMAIN lib_tracks :
          /\ lib_tracks[i].genre = Some(<<"R", "o", "c", "k">>)
          /\ lib_tracks[j].genre = None

\* C15: a scan that ends with an error at the root returns Err and leaves
\* tracks, genres and artists as they were when it was called.
C15_RootErrorKeepsSnapshot ==
    (~scanning /\ visited # <<>> /\ LastItem.kind = "err" /\ LastItem.root) =>
        /\ scan_result = "Err"
        /\ Snapshot = before

\* C16: a scan that met an error at an entry below the root returns Ok and
\* holds a track for every supported audio file the walk yielded.
C16_EntryErrorSkipped ==
    (~scanning /\ \E i \in DOMAIN visited :
                     visited[i].kind = "err" /\ ~visited[i].root) =>
        /\ scan_result = "Ok"
        /\ \A i \in DOMAIN visited :
              IsAudioEntry(visited[i]) =>
                  \E t \in DOMAIN lib_tracks : lib_tracks[t].path = visited[i].path

\* C17: the tracks are the supported audio files the walk has yielded, in
\* its order, whatever their tags; one whose metadata cannot be extracted
\* has no album, artist, genre, year or duration and is in no genre or artist
\* group; after a scan that returned Ok total_tracks is their number.
C17_UnreadableTagsKept ==
    LET audio == SelectSeq(visited, IsAudioEntry)
    IN  /\ Len(lib_tracks) = Len(audio)
        /\ \A i \in DOMAIN audio :
              /\ lib_tracks[i].path = audio[i].path
              /\ ~audio[i].content.ok =>
                    /\ lib_tracks[i].album = None
                    /\ lib_tracks[i].artist = None
                    /\ lib_tracks[i].genre = None
                    /\ lib_tracks[i].year = None
                    /\ lib_tracks[i].duration = None
                    /\ GroupsOf(genres, i) = {}
                    /\ GroupsOf(artists, i) = {}
        /\ (~scanning /\ scan_result = "Ok") =>
              get_stats.total_tracks = Len(audio)

\* a scan returned Ok with a tagged file and then an unreadable one
C17_Witness ==
    /\ ~scanning
    /\ scan_result = "Ok"
    /\ Len(lib_tracks) = 2
    /\ lib_tracks[1].genre.some
    /\ lib_tracks[2].path.stem = "broken"
    /\ ~visited[3].content.ok

\* C18: in every state, between, during and after scans, every offset in
\* genres and in artists is an offset of tracks, the track there has a genre
\* that normalizes to the key, respectively the artist that is the key, and
\* get_playlist_by_genre yields the paths of such tracks.
C18_OffsetsValid ==
    /\ \A k \in DOMAIN genres : \A j \in DOMAIN genres[k] :
          /\ genres[k][j] \in 0..(Len(lib_tracks) - 1)
          /\ genres[k][j] + 1 \in Tagged
          /\ Norm(genres[k][j] + 1) = k
    /\ \A k \in DOMAIN artists : \A j \in DOMAIN artists[k] :
          /\ artists[k][j] \in 0..(Len(lib_tracks) - 1)
          /\ artists[k][j] + 1 \in Credited
          /\ lib_tracks[artists[k][j] + 1].artist.v = k
    /\ \A k \in DOMAIN genres :
          LET playlist == get_playlist_by_genre(k)
          IN  /\ Len(playlist) = Len(genres[k])
              /\ \A j \in DOMAIN playlist :
                    \E i \in Tagged : Norm(i) = k /\ lib_tracks[i].path = playlist[j]

\* a scan that followed one with two tracks failed below the root after its
\* first track
C18_Witness ==
    /\ ~scanning
    /\ scan_result = "Err"
    /\ ~LastItem.root
    /\ Len(before.tracks) = 2
    /\ Len(lib_tracks) = 1
    /\ DOMAIN genres # {}
    /\ DOMAIN artists # {}

QueryNames ==
    { f.content.genre.v : f \in { g \in Files : g.content.ok /\ g.content.genre.some } }
    \cup { <<"R", "O", "C", "K">>, <<"r", "-", "o", "c", "k">>, <<"j", "a", "z", "z">>,
           <<"P", "o", "p">>, <<>>, <<"R", "o", "c">> }

\* the paths of the given tracks, in their order
PathsOf(ts) == [i \in DOMAIN ts |-> ts[i].path]

\* C21: for every name, get_playlist_by_genre yields the paths of the tracks
\* whose genre normalizes to what the name normalizes to, in the order of
\* tracks and each once, and the empty sequence when there is none.
C21_PlaylistByGenre ==
    \A name \in QueryNames :
        LET wanted(t) == t.genre.some /\ normalize_genre(t.genre.v) = normalize_genre(name)
        IN  get_playlist_by_genre(name) = PathsOf(SelectSeq(lib_tracks, wanted))

\* "Rock" and "rock!" were scanned and the query "ROCK" yields both, in scan
\* order, while "Roc" yields nothing
C21_Witness ==
    /\ ~scanning
    /\ scan_result = "Ok"
    /\ Len(lib_tracks) = 2
    /\ get_playlist_by_genre(<<"R", "O", "C", "K">>) =
          <<lib_tracks[1].path, lib_tracks[2].path>>
    /\ lib_tracks[1].genre = Some(<<"R", "o", "c", "k">>)
    /\ lib_tracks[2].genre = Some(<<"r", "o", "c", "k", "!">>)
    /\ get_playlist_by_genre(<<"R", "o", "c">>) = <<>>

\* the artists in the order in which the scan first met them
InsertionOrder ==
    CHOOSE order \in IterationOrders :
        \A i, j \in DOMAIN order : i < j => artists[order[i]][1] < artists[order[j]][1]

\* C22: whatever order the map yields its keys in, get_top_artists is the
\* list it is for the order of first insertion: artists with the same count
\* stand in insertion order.
C22_TiesInInsertionOrder ==
    \A order \in IterationOrders :
        get_top_artists(order) = get_top_artists(InsertionOrder)

\* the number of tracks whose artist is exactly the given string
TracksBy(artist) ==
    Cardinality({ i \in Credited : lib_tracks[i].artist.v = artist })

ArtistNames == { lib_tracks[i].artist.v : i \in Credited }

Least(a, b) == IF a < b THEN a ELSE b

\* C23: whatever order the map yields its keys in, get_top_artists has
\* min(5, number of distinct artists) entries, each a different artist with
\* the number of tracks of exactly that artist, the counts do not increase,
\* and no artist left out has more tracks than one in the list.
C23_TopArtists ==
    \A order \in IterationOrders :
        LET top == get_top_artists(order)
            listed == { top[i][1] : i \in DOMAIN top }
        IN  /\ Len(top) = Least(5, Cardinality(ArtistNames))
            /\ Cardinality(listed) = Len(top)
            /\ listed \subseteq ArtistNames
            /\ \A i \in DOMAIN top : top[i][2] = TracksBy(top[i][1])
            /\ \A i, j \in DOMAIN top : i < j => top[i][2] >= top[j][2]
            /\ \A a \in ArtistNames \ listed :
                  \A i \in DOMAIN top : TracksBy(a) <= top[i][2]

\* a scan found six artists, "Ana" with two tracks and the others, "ana"
\* among them, with one
C23_Witness ==
    /\ ~scanning
    /\ scan_result = "Ok"
    /\ Cardinality(ArtistNames) = 6
    /\ TracksBy("Ana") = 2
    /\ TracksBy("ana") = 1
    /\ Len(lib_tracks) = 7

RECURSIVE SumOf(_, _)
SumOf(f, keys) ==
    IF keys = {} THEN 0
    ELSE LET k == CHOOSE x \in keys : TRUE IN f[k] + SumOf(f, keys \ {k})

\* the tracks with a known year
Dated == { i \in DOMAIN lib_tracks : lib_tracks[i].year.some }

\* the decades of the years the files carry, and how their keys are written
DecadeStarts == {1970, 1980, 1990, 2000, 2010}

Written(decade) ==
    CASE decade = 1970 -> <<"1", "9", "7", "0", "s">>
      [] decade = 1980 -> <<"1", "9", "8", "0", "s">>
      [] decade = 1990 -> <<"1", "9", "9", "0", "s">>
      [] decade = 2000 -> <<"2", "0", "0", "0", "s">>
      [] decade = 2010 -> <<"2", "0", "1", "0", "s">>

\* C24: get_tracks_by_decade has exactly the keys "<D>s" of the decades D
\* in which a track's year falls, each with the number of tracks whose year
\* is in D..D+9; no count is zero, tracks without year are counted nowhere
\* and the counts sum to the number of tracks with a year.
C24_TracksByDecade ==
    LET decades == get_tracks_by_decade
        in_decade(d) == { i \in Dated : lib_tracks[i].year.v \in d..(d + 9) }
    IN  /\ DOMAIN decades = { Written(d) : d \in { e \in DecadeStarts : in_decade(e) # {} } }
        /\ \A d \in DecadeStarts :
              in_decade(d) # {} => decades[Written(d)] = Cardinality(in_decade(d))
        /\ \A k \in DOMAIN decades : decades[k] > 0
        /\ SumOf(decades, DOMAIN decades) = Cardinality(Dated)

\* a scan found a track of 1990 and one of 1999: "1990s" counts both
C24_Witness ==
    /\ ~scanning
    /\ scan_result = "Ok"
    /\ Len(lib_tracks) = 2
    /\ lib_tracks[1].year = Some(1990)
    /\ lib_tracks[2].year = Some(1999)
    /\ get_tracks_by_decade[<<"1", "9", "9", "0", "s">>] = 2

\* the seconds of the files the walk yielded that lofty could read
RECURSIVE SecondsOf(_)
SecondsOf(items) ==
    IF items = <<>> THEN 0
    ELSE (IF IsAudioEntry(Head(items)) /\ Head(items).content.ok
          THEN Head(items).content.duration ELSE 0)
         + SecondsOf(Tail(items))

\* C25: get_stats gives the number of tracks, the number of genre groups,
\* the number of different album strings of the tracks that have an album,
\* and the sum of the durations of the tracks that have one, which is zero
\* when no track has a duration.
C25_Stats ==
    LET stats == get_stats
    IN  /\ stats.total_tracks = Len(SelectSeq(visited, IsAudioEntry))
        /\ stats.total_genres = Cardinality({ Norm(i) : i \in Tagged })
        /\ stats.total_albums =
              Cardinality({ a \in {"Debut", "Blue"} :
                              \E i \in DOMAIN lib_tracks : lib_tracks[i].album = Some(a) })
        /\ \A i \in DOMAIN lib_tracks :
              lib_tracks[i].album.some => lib_tracks[i].album.v \in {"Debut", "Blue"}
        /\ stats.total_duration = SecondsOf(visited)
        /\ (\A i \in DOMAIN lib_tracks : ~lib_tracks[i].duration.some)
              => stats.total_duration = 0

\* a scan found two tracks of the album "Debut", 180 and 200 seconds long
C25_Witness ==
    /\ ~scanning
    /\ scan_result = "Ok"
    /\ Len(lib_tracks) = 2
    /\ lib_tracks[1].album = Some("Debut")
    /\ lib_tracks[2].album = Some("Debut")
    /\ lib_tracks[1].path # lib_tracks[2].path
    /\ get_stats.total_albums = 1
    /\ get_stats.total_duration = 380

\* the track a file of the walk is scanned into
TrackOf(file) ==
    IF file.content.ok
    THEN [path |-> file.path, album |-> file.content.album,
          artist |-> file.content.artist, genre |-> file.content.genre,
          year |-> file.content.year, duration |-> Some(file.content.duration)]
    ELSE [path |-> file.path, album |-> None, artist |-> None, genre |-> None,
          year |-> None, duration |-> None]

\* the offsets of the given positions of tracks, ascending
OffsetsOf(positions) ==
    LET chosen(offset) == offset + 1 \in positions
    IN  SelectSeq([i \in 1..Len(lib_tracks) |-> i - 1], chosen)

\* C26: tracks, genres and artists derive from the items of the walk of the
\* current or last scan alone, whatever was there before it: one track for
\* each audio file in walk order, each genre key with the offsets of its
\* tracks and each artist with the offsets of theirs, each offset once; so
\* two scans of the same tree end in the same snapshot.
C26_ScanReplacesSnapshot ==
    LET audio == SelectSeq(visited, IsAudioEntry)
    IN  /\ lib_tracks = [i \in DOMAIN audio |-> TrackOf(audio[i])]
        /\ DOMAIN genres = { Norm(i) : i \in Tagged }
        /\ \A k \in DOMAIN genres :
              genres[k] = OffsetsOf({ i \in Tagged : Norm(i) = k })
        /\ DOMAIN artists = ArtistNames
        /\ \A k \in DOMAIN artists :
              artists[k] = OffsetsOf({ i \in Credited : lib_tracks[i].artist.v = k })

\* a scan that followed one with two tracks returned Ok with the same
\* snapshot
C26_Witness ==
    /\ ~scanning
    /\ scan_result = "Ok"
    /\ Len(before.tracks) = 2
    /\ Snapshot = before
    /\ DOMAIN genres # {}
    /\ DOMAIN artists # {}

\* extensions as files carry them
ExtSamples ==
    { <<"M", "P", "3">>, <<"M", "p", "3">>, <<"m", "p", "3">>, <<"f", "l", "a", "c">>,
      <<"F", "L", "A", "C">>, <<"o", "g", "g">>, <<"O", "g", "G">>, <<"w", "a", "v">>,
      <<"W", "A", "V">>, <<"m", "4", "a">>, <<"M", "4", "A">>, <<"a", "a", "c">>,
      <<"A", "a", "c">>, <<"w", "m", "a">>, <<"W", "M", "A">>, <<"m", "p", "4">>,
      <<"m", "p">>, <<"m", "p", "3", "s">>, <<"t", "x", "t">>, <<"j", "s", "o", "n">>,
      <<"m", "3", "u">>, <<>> }

\* the extension is one of the seven, in whatever case
Supported(ext) ==
    to_lowercase(ext) \in { <<"m", "p", "3">>, <<"f", "l", "a", "c">>, <<"o", "g", "g">>,
                            <<"w", "a", "v">>, <<"m", "4", "a">>, <<"a", "a", "c">>,
                            <<"w", "m", "a">> }

BecomesTrack(item) ==
    item.kind = "file" /\ item.path.ext.some /\ Supported(item.path.ext.v)

\* is_audio_file_ext and is_audio_file on the samples
ExtensionsAgree ==
    /\ \A ext \in ExtSamples : is_audio_file_ext(ext) <=> Supported(ext)
    /\ \A ext \in ExtSamples :
          is_audio_file([stem |-> "song", ext |-> Some(ext)]) <=> Supported(ext)
    /\ ~is_audio_file([stem |-> "README", ext |-> None])

\* C27: the tracks are, in walk order, the items of the walk that are regular
\* files with an extension that is mp3, flac, ogg, wav, m4a, aac or wma in
\* whatever case; directories, files with another extension and files without
\* one are not among them.
C27_AudioFilesOnly ==
    /\ PathsOf(lib_tracks) = PathsOf(SelectSeq(visited, BecomesTrack))
    /\ ExtensionsAgree

\* a scan took "plain.FLAC" and left out the directory "live.mp3" before it
C27_Witness ==
    /\ ~scanning
    /\ scan_result = "Ok"
    /\ Len(visited) = 3
    /\ visited[2] = SubDir
    /\ visited[3].path.stem = "plain"
    /\ Len(lib_tracks) = 1
    /\ lib_tracks[1].path.ext = Some(<<"F", "L", "A", "C">>)

----------------------------------------------------------------------------
(* Properties of the playlist files *)

\* the names that are no playlist names
Refused(name) ==
    \/ name = <<>>
    \/ name \in { <<".">>, <<".", ".">>, <<" ">> }
    \/ \E i \in DOMAIN name :
          name[i] \in {"/", "\\", ":", "*", "?", "\"", "<", ">", "|"}

\* the playlists directory, from the root down
PlaylistsPlace == << <<"x">>, CONFIG_DIR_NAME, PLAYLISTS_SUBDIR >>

\* <playlists dir>/<name>.json
PlaylistFile(name) ==
    Append(PlaylistsPlace, name \o <<".", "j", "s", "o", "n">>)

\* the two disks hold the same files, but perhaps for one
SameBut(place, files, other) ==
    /\ DOMAIN files \ {place} = DOMAIN other \ {place}
    /\ \A f \in DOMAIN files \ {place} : files[f] = other[f]

----------------------------------------------------------------------------
(* Properties of the program *)

Launched == main.pc # "none"

\* is_dir was called on the path in this run and returned what is given
Probed(path, answer) == [path |-> path, is_dir |-> answer] \in main.probes

\* the program was given an argument that is no directory
BadArgument ==
    /\ main.args # None
    /\ Probed(main.args.v, FALSE)

\* the program was given no argument and has loaded a configuration that
\* holds no path, or a path that is no directory
BadStored ==
    /\ main.args = None
    /\ main.pc # "start"
    /\ \/ main.config.music_path = <<>>
       \/ Probed(main.config.music_path, FALSE)

NothingStarted == main.ui = None /\ ~main.engine /\ main.scan = None

\* C29: in every run of main the UI, the engine and the scan are started
\* only with a music path on which is_dir was called and returned true, the
\* scan on that same path; when the argument or the stored path is no
\* directory or no path is configured, none of them is started; and a run
\* with a bad argument makes no call on the stored configuration.
C29_CheckedDirectoryOnly ==
    Launched =>
        /\ ~NothingStarted =>
              /\ main.ui = Some(main.config.music_path)
              /\ Probed(main.config.music_path, TRUE)
              /\ ~Probed(main.config.music_path, FALSE)
              /\ main.scan \in {None, main.ui}
        /\ BadArgument \/ BadStored => NothingStarted
        /\ BadArgument => main.log = <<>>

\* a second run, given the saved configuration file as its music path, has
\* ended; the configuration the first run saved is still there
C29_Witness ==
    /\ Launched
    /\ main.pc = "exited"
    /\ BadArgument
    /\ main.args = Some(ConfigFile)
    /\ Resolve(ConfigFile) \in DOMAIN disk_files
    /\ disk_files[Resolve(ConfigFile)] = ConfigText(<<"/", "m">>)

----------------------------------------------------------------------------
(* Properties of the engine when its caller goes *)

\* the ids of the commands waiting in the channel
Waiting == [i \in 1..Len(cmd_queue) |-> cmd_queue[i].id]

----------------------------------------------------------------------------
(* Sinks left by the play commands *)

\* the sources of the list that play_tracks appends
Decodable(tracks) == SelectSeq(tracks, CanOpenAndDecode)

\* C34: when the sink could be created, PlayAlbum and PlayShuffle leave a live
\* sink even if the list is empty or nothing of it decoded (its queue is then
\* empty), and a TogglePause that follows flips the paused flag of that sink;
\* PlaySong leaves a live sink exactly when its file was decoded (and the
\* sink could be created).
C34_LoadsAlwaysLeaveSink ==
    /\ (last.cmd.type \in LoadTypes /\ pc = "recv" /\ sink_created = "ok") =>
          /\ sink.live
          /\ Len(sink.queue) = Len(Decodable(last.cmd.tracks))
          /\ Decodable(last.cmd.tracks) = <<>> => sink.queue = <<>>
    /\ (last.cmd.type = "TogglePause" /\ last.prev.type \in LoadTypes
            /\ sink_created = "ok") =>
          /\ last.sink.live
          /\ sink.live
          /\ sink.paused = ~last.sink.paused
          /\ sink.queue = last.sink.queue
    /\ last.cmd.type = "PlaySong" =>
          (sink.live <=> CanOpenAndDecode(last.cmd.path) /\ sink_created = "ok")

\* TogglePause paused the empty sink that a load without any decodable file
\* had left
C34_Witness ==
    /\ last.cmd.type = "TogglePause"
    /\ last.prev.type \in LoadTypes
    /\ last.sink.live
    /\ last.sink.queue = <<>>
    /\ sink.live
    /\ sink.paused

\* C35: the sink a play command creates is playing, not paused, while it is
\* being filled and when the command is done, whether or not the sink it
\* replaced was paused.
C35_NewSinkNotPaused ==
    /\ load.active => load.new_sink.live /\ ~load.new_sink.paused
    /\ (last.cmd.type \in PlayTypes /\ pc = "recv" /\ sink.live) => ~sink.paused

\* a play command replaced a paused sink by a playing one
C35_Witness ==
    /\ last.cmd.type \in PlayTypes
    /\ pc = "recv"
    /\ last.sink.live
    /\ last.sink.paused
    /\ sink.live
    /\ ~sink.paused

----------------------------------------------------------------------------
(* The genre counts of the statistics view *)

\* draw_stats: (genre, get_playlist_by_genre(genre).len()) for each genre of
\* get_genres(), before the sort and the cut
top_genres_data ==
    [n \in DOMAIN get_genres |->
        [genre |-> get_genres[n],
         count |-> Len(get_playlist_by_genre(get_genres[n]))]]

RECURSIVE SumCounts(_)
SumCounts(data) ==
    IF data = <<>> THEN 0 ELSE Head(data).count + SumCounts(Tail(data))

\* the places (key, position) at which the groups hold offset i - 1
PlacesOf(i) ==
    { <<k, j>> \in UNION { {k} \X DOMAIN genres[k] : k \in DOMAIN genres } :
        genres[k][j] = i - 1 }

\* C39: for every key k of get_genres(), get_playlist_by_genre(k) is the
\* non-empty list of the paths of the group keyed k, in the group's order;
\* the counts the statistics view takes from the two queries sum to the
\* number of tracks with a genre tag, and each such track is held once, by
\* one group, an untagged track by none.
C39_GenreCountsPartition ==
    /\ \A n \in DOMAIN get_genres :
          LET k == get_genres[n]
          IN  /\ k \in DOMAIN genres
              /\ get_playlist_by_genre(k) # <<>>
              /\ get_playlist_by_genre(k) =
                    [i \in DOMAIN genres[k] |-> lib_tracks[genres[k][i] + 1].path]
    /\ SumCounts(top_genres_data) = Cardinality(Tagged)
    /\ \A i \in DOMAIN lib_tracks :
          Cardinality(PlacesOf(i)) = IF i \in Tagged THEN 1 ELSE 0

\* one group of two tracks whose tags are written differently
C39_Witness ==
    /\ Len(top_genres_data) = 1
    /\ top_genres_data[1].count = 2
    /\ Cardinality(Tagged) = 2
    /\ lib_tracks[1].genre # lib_tracks[2].genre

----------------------------------------------------------------------------
(* Properties of the UI *)

\* the worker runs, has taken every command sent and is back at recv, and the
\* play function last run could create its sink
EngineIdle ==
    /\ worker = "Running"
    /\ pc = "recv"
    /\ cmd_queue = <<>>
    /\ sink_created # "failed"

\* C31: whenever the engine runs on an acquired device, has processed every
\* command the UI has sent and the last sink creation did not fail,
\* is_playing is true exactly when the engine has a sink and is_paused
\* exactly when that sink is paused; is_paused is never set without
\* is_playing.
C31_FlagsFollowEngine ==
    app.status \in {"running", "quit"} =>
        /\ EngineIdle =>
              /\ app.is_playing <=> sink.live
              /\ app.is_paused <=> (sink.live /\ sink.paused)
        /\ app.is_paused => app.is_playing

\* Space after a shuffled play: both sides show the pause
C31_Witness ==
    /\ app.status = "running"
    /\ EngineIdle
    /\ app.is_paused
    /\ sink.live
    /\ sink.paused
    /\ last.cmd.type = "TogglePause"
    /\ last.prev.type = "PlayShuffle"

\* C33: the volume the UI shows is the engine's initial volume until a
\* command is handled; whenever the worker runs, has taken every command
\* sent and the UI has emptied the status channel, it is the engine's current
\* volume; and it is never outside [0.0, 2.0].
C33_VolumeShown ==
    /\ handled = <<>> => ui_volume = InitialVolume /\ current_volume = InitialVolume
    /\ (worker = "Running" /\ pc = "recv" /\ cmd_queue = <<>>
           /\ status_queue = <<>>) => ui_volume = current_volume
    /\ InRange(ui_volume)

\* the UI shows the upper limit after more steps up than the range has
C33_Witness ==
    /\ app.status = "running"
    /\ worker = "Running"
    /\ cmd_queue = <<>>
    /\ status_queue = <<>>
    /\ Len(handled) = MaxVolumeKeys
    /\ ui_volume = MaxVolume
    /\ last.volume = MaxVolume

\* C32: while the list of playlists is not empty playlist_selected is an
\* index of it, playlist_to_delete and viewing_playlist are indexes of it
\* whenever they are set, and no key event or redraw indexes the list out of
\* bounds (which would panic).
C32_PlaylistIndexesValid ==
    app.status # "none" =>
        /\ app.playlists # <<>> => app.playlist_selected < Len(app.playlists)
        /\ app.playlist_to_delete.some =>
              app.playlist_to_delete.v < Len(app.playlists)
        /\ app.viewing_playlist.some =>
              app.viewing_playlist.v < Len(app.playlists)
        /\ app.status # "panicked"

----------------------------------------------------------------------------
(* Properties of the folder tab *)

\* C36: whenever filtered_items is not empty, selected is an index of it,
\* after any navigation, search typing, search confirm or cancel and change
\* of directory; so Enter never indexes filtered_items out of bounds and
\* the UI does not panic.
C36_SelectedInFiltered ==
    app.status # "none" =>
        /\ app.filtered_items # <<>> => app.selected < Len(app.filtered_items)
        /\ app.status # "panicked"

\* a letter typed into the search has left one line of three and the
\* selection is on it
C36_Witness ==
    /\ app.status = "running"
    /\ app.is_searching
    /\ app.last_key = "x"
    /\ app.search_query = <<"x">>
    /\ Len(app.items) = 3
    /\ Len(app.filtered_items) = 1
    /\ app.selected = 0
    /\ app.keys = 4

\* the paths marked
Marks(a) == { a.marked_tracks[i] : i \in DOMAIN a.marked_tracks }

\* the line the folder tab highlights
Highlighted == app.filtered_items[app.selected + 1]

\* L is handled outside the popups, in the folder tab, with a line
\* highlighted that is not a directory
LOnTrack ==
    /\ app.status = "running"
    /\ app'.status = "running"
    /\ app'.keys = app.keys + 1
    /\ app'.last_key = "l"
    /\ ~(app.is_deleting_playlist \/ app.is_searching \/ app.is_creating_playlist)
    /\ app.active_tab = "FolderNavigation"
    /\ app.selected < Len(app.filtered_items)
    /\ ~starts_with(Highlighted, SubSeq(DIR, 1, 5))

\* C38: L in the folder tab on a line that is not a directory toggles the
\* mark of exactly the line highlighted in the filtered list shown, also
\* under a search filter, and changes no other mark; marked_tracks never
\* holds a path twice.
C38_LMarksHighlighted ==
    /\ [](app.status # "none" =>
             \A i, j \in DOMAIN app.marked_tracks :
                 app.marked_tracks[i] = app.marked_tracks[j] => i = j)
    /\ [][LOnTrack =>
            Marks(app') =
               (Marks(app) \ {PathBuf(join(app.current_dir, Highlighted))})
               \cup ({PathBuf(join(app.current_dir, Highlighted))} \ Marks(app))]_vars

----------------------------------------------------------------------------
(* Properties of the popups *)

\* one of the three modes of handle_input is active
InMode(a) == a.is_deleting_playlist \/ a.is_searching \/ a.is_creating_playlist

\* C37: at most one of is_deleting_playlist, is_searching and
\* is_creating_playlist is active, is_deleting_playlist holds exactly when
\* playlist_to_delete is set, and a key handled while one of them is active
\* sends no command to the player and does not end the application.
C37_ModesExclusive ==
    /\ [](app.status # "none" =>
             /\ ~(app.is_deleting_playlist /\ app.is_searching)
             /\ ~(app.is_deleting_playlist /\ app.is_creating_playlist)
             /\ ~(app.is_searching /\ app.is_creating_playlist)
             /\ app.is_deleting_playlist <=> app.playlist_to_delete.some)
    /\ [][(app.status = "running" /\ InMode(app) /\ app'.keys = app.keys + 1) =>
             /\ UNCHANGED <<cmd_queue, submitted>>
             /\ app'.status \notin {"quit", "failed"}]_vars

====
